---- MODULE Spec2Model ----
(***************************************************************************)
(* Memory subsystem of the Stratos kernel (src/kernel/src/memory.rs):      *)
(* the user arena (AppTable behind the APPS mutex), the per-application    *)
(* first-fit heaps (linked_list_allocator::Heap) and the entry points      *)
(* register_app, unregister_app, app_alloc, app_dealloc, app_stats and     *)
(* memory_overview; the kernel heap behind ALLOCATOR and KHEAP_COUNTERS     *)
(* (kalloc, kdealloc, heap_stats); and the timer interrupt handler          *)
(* (timer.rs) that reaches memory_overview through thud::poll_draw and the  *)
(* Mem HUD module.  Addresses are byte addresses, sizes are byte counts.    *)
(***************************************************************************)
EXTENDS Integers, Sequences, FiniteSets, TLC

\* ------------------------------------------------------------------------
\* Program constants
\* ------------------------------------------------------------------------
HEAP_SIZE == 256 * 1024
USER_ARENA_ALIGN == 4096

\* memory.rs:113 has USER_ARENA_SIZE = 1024 * 1024 (256 pages of 4096 bytes);
\* the arena is modelled with ArenaPages pages so that it can be exhausted.
ArenaPages == 3
\* an arena one page larger
USER_ARENA_SIZE_plus_page == (ArenaPages + 1) * USER_ARENA_ALIGN

USER_ARENA_SIZE == ArenaPages * USER_ARENA_ALIGN

\* memory.rs:117 has MAX_APPS = 32; the slot table and free_regions are
\* modelled with a smaller capacity so that table exhaustion is reachable.
MAX_APPS == 2

\* Address of the USER_ARENA static (memory.rs:115, taken at memory.rs:231):
\* some non-null address chosen by the linker; page aligned here.
ARENA_BASE == 512 * USER_ARENA_ALIGN

\* Address of the HEAP static (memory.rs:13, taken at memory.rs:16).
KHEAP_BASE == 256 * USER_ARENA_ALIGN

\* linked_list_allocator: size_of::<Hole>() and align_of::<Hole>() on x86-64.
HOLE_MIN_SIZE == 16
HOLE_ALIGN == 8

\* ------------------------------------------------------------------------
\* Inputs and bounds of the model
\* ------------------------------------------------------------------------
\* SpecArena registers and unregisters ArenaIds with ArenaQuotas; Spec runs
\* every entry point for AppIds with Quotas.
ArenaIds == {41, 42, 43}
ArenaQuotas == {24, 4096, 12000}
AppIds == {41, 42}
Quotas == {24, 8192}
AllocSizes == {8, 8192}
AllocAligns == {8}
MaxAllocCount == 2
MaxDeallocCount == 2

\* SpecIrq runs the entry points step by step, lock by lock, with the timer
\* interrupt arriving between any two steps of the main flow.
IrqIds == {41}
IrqQuotas == {8192}
IrqSizes == {8192}
KAllocSizes == {128, HEAP_SIZE + 8}
KAllocAligns == {8}

\* SpecStats runs every entry point of memory.rs as one step and keeps the
\* history of what the observations reported.  The scripted sequence of
\* commands.rs:651-700 uses DUMMY_APP = 42 and blocks of 4096 bytes; its
\* quota of 64 KiB is scaled to two pages of the modelled arena.
ScenarioId == 42
ScenarioSize == 4096
ScenarioQuota == 2 * USER_ARENA_ALIGN
StatsIds == {ScenarioId}
StatsQuotas == {ScenarioQuota}
StatsSizes == {ScenarioSize}

\* SpecSlots registers and unregisters SlotsIds with the smallest quotas
\* and with one page.
SlotsIds == {41, 42, 43}
SlotsQuotas == {0, 1, 24, USER_ARENA_ALIGN}

\* SpecEdge runs the arena entry points for two apps in neighbouring
\* one-page regions, app_dealloc also with the last word of a region.
EdgeIds == {41, 42}
EdgeQuotas == {USER_ARENA_ALIGN}
EdgeSizes == {8, USER_ARENA_ALIGN}

\* SpecOverview runs the arena entry points and memory_overview for two
\* apps with a region of 24 bytes or of one page and blocks of 8 bytes.
OverviewIds == {41, 42}
OverviewQuotas == {24, USER_ARENA_ALIGN}
OverviewSizes == {8}

\* The total that init_memory finds on a machine of 128 MiB, and the totals
\* SpecSys boots with: none, one byte less than the kernel heap, the kernel
\* heap, one byte more, and the 128 MiB.
BootTotal == 512 * HEAP_SIZE
BootTotals == {0, HEAP_SIZE - 1, HEAP_SIZE, HEAP_SIZE + 1, BootTotal}

\* thud.rs:47 asks for a redraw every 100 ticks; every HudTicks ticks here.
HudTicks == 2

None == <<>>
Some(x) == <<x>>
NULL == 0

VARIABLES
    bump_offset,    \* AppTable.bump_offset
    free_regions,   \* AppTable.free_regions[0..free_count), as a sequence of <<off, size>>
    slots,          \* AppTable.slots
    handed,         \* history: per slot, the blocks <<ptr, size, align>> app_alloc returned and app_dealloc has not taken back
    unregistered,   \* history: some unregister_app call has released a slot
    released,       \* history: when the last call of an arena entry point was a successful unregister_app, the region (off, size) it released and whether it found free_regions full and dropped it
    hole_layout,    \* the order of the two words of a Hole in this build, NoLayout until a node written over another heap's node has shown it
    panicked,       \* the kernel panicked (a failed assertion or overflow check): nothing returns any more
    last            \* the last entry-point call: its name, arguments and result

mem_vars == <<bump_offset, free_regions, slots, handed, unregistered, released, hole_layout, panicked, last>>

VARIABLES
    kheap,          \* the Heap inside ALLOCATOR
    kcounters,      \* the HeapStats inside KHEAP_COUNTERS
    khanded         \* history: the blocks <<ptr, size, align>> kalloc returned and kdealloc has not taken back

kheap_vars == <<kheap, kcounters, khanded>>

VARIABLES
    locks,          \* owner of each spin::Mutex: "free", "main" or "irq"
    flow,           \* per context, the entry point it is executing and the next step of it
    handler,        \* "rendering" while timer_interrupt_handler runs, "none" while the main flow does
    HUD_ENABLED,        \* thud::ENABLED
    NEEDS_REDRAW,   \* thud::NEEDS_REDRAW
    TICK_COUNT      \* thud::TICK_COUNT, modulo the redraw period

irq_vars == <<locks, flow, handler, HUD_ENABLED, NEEDS_REDRAW, TICK_COUNT>>

VARIABLES
    reported,       \* history: the peak_used of the latest observation of the kernel heap and of each AppId, -1 before the first
    before,         \* history: the app_alloc call that succeeded last, the free bytes app_stats would have reported before it, and whether the next call for that app gave the block back
    kbefore,        \* history: the kalloc call that succeeded last, what heap_stats would have reported before it, and whether the next kernel-heap call gave the block back
    scenario        \* history: how far the calls made so far follow the scripted sequence ScenarioCall

obs_vars == <<reported, before, kbefore, scenario>>

VARIABLES
    TOTAL_RAM       \* memory.rs:84, the bytes of the Usable regions that init_memory summed up at boot

sys_vars == <<TOTAL_RAM>>

LockNames == {"ALLOCATOR", "KHEAP_COUNTERS", "APPS", "MODULES"}
Ctx == {"main", "irq"}

SlotIdx == 1..MAX_APPS

saturating_sub(a, b) == IF a >= b THEN a - b ELSE 0

\* (x + mask) & !mask for align a power of two
align_up(x, align) == ((x + align - 1) \div align) * align
align_down(x, align) == (x \div align) * align

RECURSIVE SumSizes(_)
SumSizes(rs) == IF rs = <<>> THEN 0 ELSE Head(rs)[2] + SumSizes(Tail(rs))

\* ------------------------------------------------------------------------
\* linked_list_allocator::Heap, as used for the slots' heaps
\* ------------------------------------------------------------------------
\* holes is the list of Hole nodes, which lie in the free memory itself;
\* wild says that the link of the last node listed does not end the list
\* but holds a value that is no address of a hole.
NoHeap == [bottom |-> 0, size |-> 0, used |-> 0, holes |-> <<>>, wild |-> FALSE]

\* Heap::init(heap_bottom, heap_size) -> HoleList::new: one hole over the
\* range, its start aligned up and its size aligned down to HOLE_ALIGN.
HeapInit(ptr, size) ==
    LET bottom == align_up(ptr, HOLE_ALIGN)
        sz == align_down(size - (bottom - ptr), HOLE_ALIGN)
    IN  [bottom |-> bottom, size |-> sz, used |-> 0,
         holes |-> IF sz > 0 THEN << <<bottom, sz>> >> ELSE <<>>, wild |-> FALSE]

\* a heap that reports all its bytes as free
HeapFree_all(h) == h.size

\* Heap::free() = size() - used.  `used` is a usize: a value below zero
\* stands for the wrapped value 2^64 + used, and size - used is then exact
\* modulo 2^64.
HeapFree(h) == h.size - h.used

\* HoleList::align_layout: at least one Hole, rounded up to HOLE_ALIGN
align_layout(size) == align_up(IF size < HOLE_MIN_SIZE THEN HOLE_MIN_SIZE ELSE size, HOLE_ALIGN)

\* Cursor::split_current on the hole <<addr, size>>: [ok, ptr, pieces], pieces
\* being the holes (front padding, back padding) that replace the hole
split_current(hole, required_size, required_align) ==
    LET hole_addr == hole[1]
        hole_size == hole[2]
        no_front == hole_addr = align_up(hole_addr, required_align)
        aligned_addr == IF no_front THEN hole_addr
                        ELSE align_up(hole_addr + HOLE_MIN_SIZE, required_align)
        front == IF no_front THEN <<>> ELSE << <<hole_addr, aligned_addr - hole_addr>> >>
        allocation_end == aligned_addr + required_size
        hole_end == hole_addr + hole_size
        back_padding_size == hole_end - allocation_end
        back_padding_start == align_up(allocation_end, HOLE_ALIGN)
        fail == [ok |-> FALSE, ptr |-> NULL, pieces |-> <<>>]
    IN  IF hole_size < required_size THEN fail
        ELSE IF allocation_end > hole_end THEN fail
        ELSE IF back_padding_size = 0
        THEN [ok |-> TRUE, ptr |-> aligned_addr, pieces |-> front]
        ELSE IF back_padding_start + HOLE_MIN_SIZE <= hole_end
        THEN [ok |-> TRUE, ptr |-> aligned_addr,
              pieces |-> front \o << <<back_padding_start, back_padding_size>> >>]
        ELSE fail

\* Heap::allocate_first_fit(layout): the first hole, in address order, that
\* split_current accepts: [ok, fault, ptr, heap].  When no listed hole is
\* accepted the walk follows the link of the last one: out of the heap when
\* the list is wild (fault).
allocate_first_fit(h, size, align) ==
    LET asize == align_layout(size)
        F == {k \in 1..Len(h.holes) : split_current(h.holes[k], asize, align).ok}
    IN  IF F = {} THEN [ok |-> FALSE, fault |-> h.wild, ptr |-> NULL, heap |-> h]
        ELSE LET k == CHOOSE k \in F : \A j \in F : k <= j
                 r == split_current(h.holes[k], asize, align)
             IN  [ok |-> TRUE, fault |-> FALSE, ptr |-> r.ptr,
                  heap |-> [h EXCEPT !.used = @ + asize,
                                     !.holes = SubSeq(@, 1, k - 1) \o r.pieces
                                               \o SubSeq(@, k + 1, Len(@))]]

\* the hole list with <<addr, size>> put in address order
RECURSIVE InsertHole(_, _)
InsertHole(holes, hole) ==
    IF holes = <<>> THEN <<hole>>
    ELSE IF hole[1] < Head(holes)[1] THEN <<hole>> \o holes
    ELSE <<Head(holes)>> \o InsertHole(Tail(holes), hole)

\* neighbouring holes that touch are merged into one
RECURSIVE MergeHoles(_)
MergeHoles(holes) ==
    IF Len(holes) < 2 THEN holes
    ELSE IF holes[1][1] + holes[1][2] = holes[2][1]
    THEN MergeHoles(<< <<holes[1][1], holes[1][2] + holes[2][2]>> >> \o SubSeq(holes, 3, Len(holes)))
    ELSE <<holes[1]>> \o MergeHoles(Tail(holes))

\* a deallocate that leaves `used` as it was
deallocate_keeps_used(h, ptr, size) ==
    [aliases |-> FALSE, fault |-> FALSE,
     heap |-> [h EXCEPT !.holes = MergeHoles(InsertHole(@, <<ptr, align_layout(size)>>))]]

\* Heap::deallocate(ptr, layout): [aliases, fault, heap].  A freed block
\* that overlaps an existing hole fails the allocator's "Freed node aliases
\* existing hole" assertion (aliases = TRUE); otherwise the block becomes a
\* hole, merged with the holes it touches, and its aligned size is
\* subtracted from `used`, whatever was allocated there.  The walk to the
\* block's place stops at the first hole above it; with none listed above
\* it, the walk follows the link of the last one: out of the heap when the
\* list is wild (fault).
deallocate(h, ptr, size) ==
    LET asize == align_layout(size)
        aliases == \E k \in 1..Len(h.holes) :
                      /\ ptr < h.holes[k][1] + h.holes[k][2]
                      /\ h.holes[k][1] < ptr + asize
        fault == h.wild /\ \A k \in 1..Len(h.holes) : h.holes[k][1] < ptr
    IN  [aliases |-> aliases, fault |-> fault,
         heap |-> [h EXCEPT !.used = @ - asize,
                            !.holes = MergeHoles(InsertHole(@, <<ptr, asize>>))]]

\* ------------------------------------------------------------------------
\* AppSlot / AppTable
\* ------------------------------------------------------------------------
ZeroStats == [used |-> 0, free |-> 0, total |-> 0, peak_used |-> 0,
              alloc_count |-> 0, dealloc_count |-> 0]

new_uninit == [id |-> None, start |-> NULL, size |-> 0, offset |-> 0,
               heap |-> NoHeap, stats |-> ZeroStats, initialized |-> FALSE]

\* a find that looks at the uninitialized slots instead
find_slot_by_id_uninit(id) ==
    LET S == {i \in SlotIdx : slots[i].id = Some(id) /\ ~slots[i].initialized}
    IN  IF S = {} THEN 0 ELSE CHOOSE i \in S : \A j \in S : i <= j

\* a find that looks at the first slot only
find_slot_by_id_first(id) ==
    IF slots[1].id = Some(id) /\ slots[1].initialized THEN 1 ELSE 0

\* a lookup that settles for the first initialized slot, whatever its id
find_slot_by_id_any(id) ==
    LET S == {i \in SlotIdx : slots[i].initialized}
    IN  IF S = {} THEN 0 ELSE CHOOSE i \in S : \A j \in S : i <= j

\* index of the first slot holding id and initialized, 0 when there is none
find_slot_by_id(id) ==
    LET S == {i \in SlotIdx : slots[i].id = Some(id) /\ slots[i].initialized}
    IN  IF S = {} THEN 0 ELSE CHOOSE i \in S : \A j \in S : i <= j

\* a search that takes the highest slot that is not initialized
find_free_slot_highest ==
    LET S == {i \in SlotIdx : ~slots[i].initialized}
    IN  IF S = {} THEN 0 ELSE CHOOSE i \in S : \A j \in S : i >= j

\* a search that settles for the last slot when none is free
find_free_slot_or_last ==
    LET S == {i \in SlotIdx : ~slots[i].initialized}
    IN  IF S = {} THEN MAX_APPS ELSE CHOOSE i \in S : \A j \in S : i <= j

\* index of the first slot that is not initialized, 0 when there is none
find_free_slot ==
    LET S == {i \in SlotIdx : ~slots[i].initialized}
    IN  IF S = {} THEN 0 ELSE CHOOSE i \in S : \A j \in S : i <= j

\* a count of the bytes above bump_offset only
arena_free_bump_only == saturating_sub(USER_ARENA_SIZE, bump_offset)

arena_free_for_new_regions ==
    saturating_sub(USER_ARENA_SIZE, bump_offset) + SumSizes(free_regions)

\* a removal that leaves the entry in place
SwapRemoveKeeps(rs, i) == rs

\* free_count -= 1; free_regions[i] = free_regions[free_count]
SwapRemove(rs, i) ==
    LET n == Len(rs)
    IN  [k \in 1..(n - 1) |-> IF k = i THEN rs[n] ELSE rs[k]]

\* a scan that takes the first entry, whatever its size
first_fit_region_any(bytes) == IF Len(free_regions) > 0 THEN 1 ELSE 0

\* a scan that never finds an entry
first_fit_region_none(bytes) == 0

\* the scan of alloc_region: index of the first free_regions entry of size
\* >= bytes, 0 when there is none
first_fit_region(bytes) ==
    LET F == {i \in 1..Len(free_regions) : free_regions[i][2] >= bytes}
    IN  IF F = {} THEN 0 ELSE CHOOSE i \in F : \A j \in F : i <= j

\* a rounding that adds the whole alignment instead of the mask
bump_aligned_off_plus == align_up(bump_offset + 1, USER_ARENA_ALIGN)

\* a rounding down to the page boundary
bump_aligned_off_down == align_down(bump_offset, USER_ARENA_ALIGN)

\* a carve at bump_offset as it stands
bump_aligned_off_unrounded == bump_offset

\* (bump_offset + align_mask) & !align_mask
bump_aligned_off == align_up(bump_offset, USER_ARENA_ALIGN)

\* alloc_region(bytes): [ok, ptr, size, off, bump, free], the last two being
\* bump_offset and free_regions after the call
alloc_region(bytes) ==
    LET i == first_fit_region(bytes)
        aligned_off == bump_aligned_off
        end == aligned_off + bytes
    IN  IF i # 0
        THEN [ok |-> TRUE, ptr |-> ARENA_BASE + free_regions[i][1], size |-> bytes,
              off |-> free_regions[i][1], bump |-> bump_offset,
              free |-> SwapRemove(free_regions, i)]
        ELSE IF end > USER_ARENA_SIZE
        THEN [ok |-> FALSE, ptr |-> NULL, size |-> 0, off |-> 0,
              bump |-> bump_offset, free |-> free_regions]
        ELSE [ok |-> TRUE, ptr |-> ARENA_BASE + aligned_off, size |-> bytes,
              off |-> aligned_off, bump |-> end, free |-> free_regions]

\* a free_region that records the region as whole pages
free_region_rounded(off, size) ==
    IF Len(free_regions) < MAX_APPS
    THEN Append(free_regions, <<off, align_up(size, USER_ARENA_ALIGN)>>)
    ELSE free_regions

\* a free_region that appends whatever the length of the list
free_region_unbounded(off, size) == Append(free_regions, <<off, size>>)

\* free_region(off, size): free_regions after the call
free_region(off, size) ==
    IF Len(free_regions) < MAX_APPS THEN Append(free_regions, <<off, size>>)
    ELSE free_regions

\* calls counted so far by the live slots (the model's bound on heap activity)
RECURSIVE SumCount(_, _)
SumCount(f, S) ==
    IF S = {} THEN 0
    ELSE LET i == CHOOSE i \in S : TRUE IN f[i] + SumCount(f, S \ {i})
AllocsCounted == SumCount([i \in SlotIdx |-> slots[i].stats.alloc_count], SlotIdx)
DeallocsCounted == SumCount([i \in SlotIdx |-> slots[i].stats.dealloc_count], SlotIdx)

Call(op, id, size, ptr, ret) ==
    [op |-> op, id |-> id, size |-> size, ptr |-> ptr, ret |-> ret]

NoLayout == "unseen"

NoRelease == [off |-> 0, size |-> 0, dropped |-> FALSE]

MemInit ==
    /\ bump_offset = 0
    /\ free_regions = <<>>
    /\ slots = [i \in SlotIdx |-> new_uninit]
    /\ handed = [i \in SlotIdx |-> {}]
    /\ unregistered = FALSE
    /\ released = NoRelease
    /\ hole_layout = NoLayout
    /\ panicked = FALSE
    /\ last = Call("init", 0, 0, NULL, TRUE)

\* Heap::init (memory.rs:257) asserts that the region holds at least one
\* Hole (HoleList::new: hole_size >= size_of::<Hole>()): a region smaller
\* than HOLE_MIN_SIZE panics the kernel, the region already taken.
register_app(app_id, quota_bytes) ==
    /\ ~panicked
    /\ IF find_slot_by_id(app_id) # 0
       THEN /\ last' = Call("register_app", app_id, quota_bytes, NULL, TRUE)
            /\ released' = NoRelease
            /\ hole_layout' = hole_layout
            /\ UNCHANGED <<bump_offset, free_regions, slots, handed, unregistered, panicked>>
       ELSE IF arena_free_for_new_regions < quota_bytes
       THEN /\ last' = Call("register_app", app_id, quota_bytes, NULL, FALSE)
            /\ released' = NoRelease
            /\ hole_layout' = hole_layout
            /\ UNCHANGED <<bump_offset, free_regions, slots, handed, unregistered, panicked>>
       ELSE LET r == alloc_region(quota_bytes)
                i == find_free_slot
            IN  IF ~r.ok
                THEN /\ last' = Call("register_app", app_id, quota_bytes, NULL, FALSE)
                     /\ released' = NoRelease
                     /\ hole_layout' = hole_layout
                     /\ UNCHANGED <<bump_offset, free_regions, slots, handed, unregistered, panicked>>
                ELSE IF i = 0
                THEN /\ bump_offset' = r.bump
                     /\ free_regions' = r.free
                     /\ last' = Call("register_app", app_id, quota_bytes, NULL, FALSE)
                     /\ released' = NoRelease
                     /\ hole_layout' = hole_layout
                     /\ UNCHANGED <<slots, handed, unregistered, panicked>>
                ELSE IF r.size < HOLE_MIN_SIZE
                THEN /\ bump_offset' = r.bump
                     /\ free_regions' = r.free
                     /\ panicked' = TRUE
                     /\ last' = Call("register_app", app_id, quota_bytes, NULL, FALSE)
                     /\ released' = NoRelease
                     /\ hole_layout' = hole_layout
                     /\ UNCHANGED <<slots, handed, unregistered>>
                ELSE /\ bump_offset' = r.bump
                     /\ free_regions' = r.free
                     /\ slots' = [slots EXCEPT ![i] =
                           [id |-> Some(app_id), start |-> r.ptr, size |-> r.size,
                            offset |-> r.off, heap |-> HeapInit(r.ptr, r.size),
                            stats |-> [used |-> 0, free |-> r.size, total |-> r.size,
                                       peak_used |-> 0, alloc_count |-> 0,
                                       dealloc_count |-> 0],
                            initialized |-> TRUE]]
                     /\ handed' = [handed EXCEPT ![i] = {}]
                     /\ last' = Call("register_app", app_id, quota_bytes, NULL, TRUE)
                     /\ released' = NoRelease
                     /\ hole_layout' = hole_layout
                     /\ UNCHANGED <<unregistered, panicked>>

\* an unregister_app that takes bump_offset back when the region released
\* is the last one carved
unregister_app_retracts(app_id) ==
    /\ ~panicked
    /\ LET i == find_slot_by_id(app_id)
       IN  IF i = 0
           THEN /\ last' = Call("unregister_app", app_id, 0, NULL, FALSE)
                /\ released' = NoRelease
                /\ hole_layout' = hole_layout
                /\ UNCHANGED <<bump_offset, free_regions, slots, handed, unregistered, panicked>>
           ELSE /\ slots' = [slots EXCEPT ![i] = new_uninit]
                /\ free_regions' = free_region(slots[i].offset, slots[i].size)
                /\ handed' = [handed EXCEPT ![i] = {}]
                /\ unregistered' = TRUE
                /\ released' = [off |-> slots[i].offset, size |-> slots[i].size,
                                 dropped |-> Len(free_regions) >= MAX_APPS]
                /\ hole_layout' = hole_layout
                /\ last' = Call("unregister_app", app_id, 0, NULL, TRUE)
                /\ bump_offset' = IF slots[i].offset + slots[i].size = bump_offset
                                  THEN slots[i].offset ELSE bump_offset
                /\ UNCHANGED panicked

\* The code leaves the slot's heap field as it was; no code reads the heap
\* of a slot that is not initialized, and register_app writes a new one, so
\* the slot is modelled as new_uninit.
unregister_app(app_id) ==
    /\ ~panicked
    /\ LET i == find_slot_by_id(app_id)
       IN  IF i = 0
           THEN /\ last' = Call("unregister_app", app_id, 0, NULL, FALSE)
                /\ released' = NoRelease
                /\ hole_layout' = hole_layout
                /\ UNCHANGED <<bump_offset, free_regions, slots, handed, unregistered, panicked>>
           ELSE /\ slots' = [slots EXCEPT ![i] = new_uninit]
                /\ free_regions' = free_region(slots[i].offset, slots[i].size)
                /\ handed' = [handed EXCEPT ![i] = {}]
                /\ unregistered' = TRUE
                /\ released' = [off |-> slots[i].offset, size |-> slots[i].size,
                                 dropped |-> Len(free_regions) >= MAX_APPS]
                /\ hole_layout' = hole_layout
                /\ last' = Call("unregister_app", app_id, 0, NULL, TRUE)
                /\ UNCHANGED <<bump_offset, panicked>>

\* an app_alloc that leaves peak_used as it was
app_alloc_stale_peak(app_id, size, align) ==
    /\ ~panicked
    /\ LET i == find_slot_by_id(app_id)
       IN  IF i = 0
           THEN /\ last' = Call("app_alloc", app_id, size, NULL, NULL)
                /\ released' = NoRelease
                /\ hole_layout' = hole_layout
                /\ UNCHANGED <<bump_offset, free_regions, slots, handed, unregistered, panicked>>
           ELSE IF slots[i].stats.free < size
           THEN /\ last' = Call("app_alloc", app_id, size, NULL, NULL)
                /\ released' = NoRelease
                /\ hole_layout' = hole_layout
                /\ UNCHANGED <<bump_offset, free_regions, slots, handed, unregistered, panicked>>
           ELSE LET r == allocate_first_fit(slots[i].heap, size, align)
                    used == slots[i].stats.used + size
                IN  IF r.ok
                    THEN /\ AllocsCounted < MaxAllocCount
                         /\ slots' = [slots EXCEPT
                               ![i].heap = r.heap,
                               ![i].stats.used = used,
                               ![i].stats.free = saturating_sub(slots[i].size, used),
                               ![i].stats.alloc_count = @ + 1]
                         /\ handed' = [handed EXCEPT ![i] = @ \cup {<<r.ptr, size, align>>}]
                         /\ last' = Call("app_alloc", app_id, size, NULL, r.ptr)
                         /\ released' = NoRelease
                         /\ hole_layout' = hole_layout
                         /\ UNCHANGED <<bump_offset, free_regions, unregistered, panicked>>
                    ELSE IF r.fault
                    THEN /\ panicked' = TRUE
                         /\ last' = Call("app_alloc", app_id, size, NULL, NULL)
                         /\ released' = NoRelease
                         /\ hole_layout' = hole_layout
                         /\ UNCHANGED <<bump_offset, free_regions, slots, handed, unregistered>>
                    ELSE /\ last' = Call("app_alloc", app_id, size, NULL, NULL)
                         /\ released' = NoRelease
                         /\ hole_layout' = hole_layout
                         /\ UNCHANGED <<bump_offset, free_regions, slots, handed, unregistered, panicked>>

app_alloc(app_id, size, align) ==
    /\ ~panicked
    /\ LET i == find_slot_by_id(app_id)
       IN  IF i = 0
           THEN /\ last' = Call("app_alloc", app_id, size, NULL, NULL)
                /\ released' = NoRelease
                /\ hole_layout' = hole_layout
                /\ UNCHANGED <<bump_offset, free_regions, slots, handed, unregistered, panicked>>
           ELSE IF slots[i].stats.free < size
           THEN /\ last' = Call("app_alloc", app_id, size, NULL, NULL)
                /\ released' = NoRelease
                /\ hole_layout' = hole_layout
                /\ UNCHANGED <<bump_offset, free_regions, slots, handed, unregistered, panicked>>
           ELSE LET r == allocate_first_fit(slots[i].heap, size, align)
                    used == slots[i].stats.used + size
                IN  IF r.ok
                    THEN /\ AllocsCounted < MaxAllocCount
                         /\ slots' = [slots EXCEPT
                               ![i].heap = r.heap,
                               ![i].stats.used = used,
                               ![i].stats.free = saturating_sub(slots[i].size, used),
                               ![i].stats.alloc_count = @ + 1,
                               ![i].stats.peak_used = IF used > @ THEN used ELSE @]
                         /\ handed' = [handed EXCEPT ![i] = @ \cup {<<r.ptr, size, align>>}]
                         /\ last' = Call("app_alloc", app_id, size, NULL, r.ptr)
                         /\ released' = NoRelease
                         /\ hole_layout' = hole_layout
                         /\ UNCHANGED <<bump_offset, free_regions, unregistered, panicked>>
                    ELSE IF r.fault
                    THEN /\ panicked' = TRUE
                         /\ last' = Call("app_alloc", app_id, size, NULL, NULL)
                         /\ released' = NoRelease
                         /\ hole_layout' = hole_layout
                         /\ UNCHANGED <<bump_offset, free_regions, slots, handed, unregistered>>
                    ELSE /\ last' = Call("app_alloc", app_id, size, NULL, NULL)
                         /\ released' = NoRelease
                         /\ hole_layout' = hole_layout
                         /\ UNCHANGED <<bump_offset, free_regions, slots, handed, unregistered, panicked>>

\* a range check that takes the end of the region as inside
in_region_incl_end(slot, p) == slot.start <= p /\ p <= slot.start + slot.size

\* a range check without the lower bound
in_region_no_begin(slot, p) == p < slot.start + slot.size

\* (begin..end).contains(&p) for the slot's region
in_region(slot, p) == slot.start <= p /\ p < slot.start + slot.size

\* the order in which the compiler has laid out the two words of a Hole
HoleLayouts == {"size_next", "next_size"}

\* the layouts this build may have: the one it has shown, either before that
BuildLayouts == IF hole_layout = NoLayout THEN HoleLayouts ELSE {hole_layout}

\* address of the first hole of h above ptr, NULL (None) when there is none:
\* the link that deallocate gives the node it writes at ptr
next_hole(h, ptr) ==
    LET S == {k \in 1..Len(h.holes) : h.holes[k][1] > ptr}
    IN  IF S = {} THEN NULL ELSE h.holes[CHOOSE k \in S : \A j \in S : k <= j][1]

\* Heap::deallocate writes the node of the freed block, the two words of a
\* Hole, at ptr (make_hole) and does not look at the end of the heap: the
\* second word of a node written in the last word of a region lies in the
\* bytes that follow the region.  Where the heap of another live slot keeps
\* a hole at that address, the word overwritten is the first word of its
\* node: its size, which becomes the link written (size_next), or its link,
\* which becomes the size written and leads out of the heap (next_size).
\* `slot` is that other slot, `asize` and `next` are the words written.
overwritten(slot, ptr, asize, next, layout) ==
    LET a == ptr + HOLE_MIN_SIZE \div 2
        K == {k \in 1..Len(slot.heap.holes) : slot.heap.holes[k][1] = a}
        k == CHOOSE k \in K : TRUE
    IN  IF ~slot.initialized \/ K = {} THEN slot
        ELSE IF layout = "size_next"
        THEN [slot EXCEPT !.heap.holes[k] = <<a, next>>]
        ELSE [slot EXCEPT !.heap.holes = SubSeq(@, 1, k), !.heap.wild = TRUE]

\* The deallocate call is undefined behaviour when the block is not one the
\* heap handed out: the outcomes modelled are the allocator's assertion
\* failing (a panic), the walk of the hole list leaving the heap (a fault,
\* modelled as a panic), `used` underflowing (a panic where overflow checks
\* are compiled in, a wrapped value where they are not), or the block
\* joining the free list, its node written over what lies at ptr.
app_dealloc(app_id, ptr, size, align) ==
    /\ ~panicked
    /\ LET i == find_slot_by_id(app_id)
           d == deallocate(slots[i].heap, ptr, size)
           used == saturating_sub(slots[i].stats.used, size)
       IN  IF i = 0
           THEN /\ last' = Call("app_dealloc", app_id, size, ptr, FALSE)
                /\ released' = NoRelease
                /\ hole_layout' = hole_layout
                /\ UNCHANGED <<bump_offset, free_regions, slots, handed, unregistered, panicked>>
           ELSE IF ~in_region(slots[i], ptr)
           THEN /\ last' = Call("app_dealloc", app_id, size, ptr, FALSE)
                /\ released' = NoRelease
                /\ hole_layout' = hole_layout
                /\ UNCHANGED <<bump_offset, free_regions, slots, handed, unregistered, panicked>>
           ELSE IF d.aliases \/ d.fault
           THEN /\ panicked' = TRUE
                /\ last' = Call("app_dealloc", app_id, size, ptr, FALSE)
                /\ released' = NoRelease
                /\ hole_layout' = hole_layout
                /\ UNCHANGED <<bump_offset, free_regions, slots, handed, unregistered>>
           ELSE \/ /\ DeallocsCounted < MaxDeallocCount
                   /\ \E layout \in BuildLayouts :
                         /\ slots' = [j \in SlotIdx |->
                               IF j = i
                               THEN [slots[i] EXCEPT
                                       !.heap = d.heap,
                                       !.stats.used = used,
                                       !.stats.free = saturating_sub(slots[i].size, used),
                                       !.stats.dealloc_count = @ + 1]
                               ELSE overwritten(slots[j], ptr, align_layout(size),
                                                next_hole(slots[i].heap, ptr), layout)]
                         /\ hole_layout' =
                               IF \E j \in SlotIdx \ {i} :
                                     overwritten(slots[j], ptr, align_layout(size),
                                                 next_hole(slots[i].heap, ptr), layout) # slots[j]
                               THEN layout ELSE hole_layout
                   /\ handed' = [handed EXCEPT ![i] = {b \in @ : b[1] # ptr}]
                   /\ last' = Call("app_dealloc", app_id, size, ptr, TRUE)
                   /\ released' = NoRelease
                   /\ UNCHANGED <<bump_offset, free_regions, unregistered, panicked>>
                \/ /\ slots[i].heap.used >= 0 /\ d.heap.used < 0
                   /\ panicked' = TRUE
                   /\ last' = Call("app_dealloc", app_id, size, ptr, FALSE)
                   /\ released' = NoRelease
                   /\ hole_layout' = hole_layout
                   /\ UNCHANGED <<bump_offset, free_regions, slots, handed, unregistered>>

\* a refresh that takes the bytes now in use for the peak
refreshed_peak_now(slot) ==
    LET free_now == HeapFree(slot.heap)
    IN  [slot.stats EXCEPT !.free = free_now, !.total = slot.size,
                           !.used = saturating_sub(slot.size, free_now),
                           !.peak_used = saturating_sub(slot.size, free_now)]

\* the stats refresh app_stats and memory_overview apply to a live slot
refreshed(slot) ==
    LET free_now == HeapFree(slot.heap)
    IN  [slot.stats EXCEPT !.free = free_now, !.total = slot.size,
                           !.used = saturating_sub(slot.size, free_now)]

app_stats(app_id) ==
    /\ ~panicked
    /\ LET i == find_slot_by_id(app_id)
       IN  IF i = 0
           THEN /\ last' = Call("app_stats", app_id, 0, NULL, None)
                /\ released' = NoRelease
                /\ hole_layout' = hole_layout
                /\ UNCHANGED <<bump_offset, free_regions, slots, handed, unregistered, panicked>>
           ELSE /\ slots' = [slots EXCEPT ![i].stats = refreshed(slots[i])]
                /\ last' = Call("app_stats", app_id, 0, NULL, Some(refreshed(slots[i])))
                /\ released' = NoRelease
                /\ hole_layout' = hole_layout
                /\ UNCHANGED <<bump_offset, free_regions, handed, unregistered, panicked>>

\* The pointers a caller may pass to app_dealloc: the blocks handed out to
\* any app, and for every live region its start, an address inside its
\* first block, and its end.
DeallocPtrs ==
    UNION {{b[1] : b \in handed[i]} : i \in SlotIdx}
    \cup UNION {{slots[i].start, slots[i].start + 24, slots[i].start + slots[i].size} :
                  i \in {j \in SlotIdx : slots[j].initialized}}

\* ------------------------------------------------------------------------
\* Kernel heap: the critical sections of kalloc, kdealloc and heap_stats
\* ------------------------------------------------------------------------
KHeapInit ==
    /\ kheap = HeapInit(KHEAP_BASE, HEAP_SIZE)
    /\ kcounters = ZeroStats
    /\ khanded = {}

\* ------------------------------------------------------------------------
\* Contexts, locks and the timer interrupt
\* ------------------------------------------------------------------------
\* The kernel runs on one CPU.  The main flow (the command loop of main.rs)
\* runs with interrupts enabled (main.rs:63); timer_interrupt_handler runs
\* through an interrupt gate, with interrupts disabled, and the main flow
\* resumes only when it returns.  memory.rs takes its locks with
\* spin::Mutex::lock, which spins until the lock is free and leaves the
\* interrupt flag alone.
IdleFlow == [op |-> "none", pc |-> "none", id |-> 0, size |-> 0, align |-> 0,
             ptr |-> NULL, k |-> ZeroStats]

IrqInit ==
    /\ locks = [l \in LockNames |-> "free"]
    /\ flow = [c \in Ctx |-> IdleFlow]
    /\ handler = "none"
    /\ HUD_ENABLED = FALSE
    /\ NEEDS_REDRAW = FALSE
    /\ TICK_COUNT = 0

\* the context whose instructions the CPU executes
Running(c) ==
    /\ ~panicked
    /\ IF c = "irq" THEN handler = "rendering" ELSE handler = "none"

\* the lock a flow is about to take, "" when its next step is not a lock()
LockAt(pc) ==
    CASE pc = "lock_ALLOCATOR" -> "ALLOCATOR"
      [] pc = "lock_KHEAP_COUNTERS" -> "KHEAP_COUNTERS"
      [] pc = "lock_APPS" -> "APPS"
      [] OTHER -> ""

\* the step that follows lock l in entry point op
AfterLock(op, l) ==
    CASE l = "ALLOCATOR" /\ op = "kalloc" -> "alloc"
      [] l = "ALLOCATOR" /\ op = "kdealloc" -> "dealloc"
      [] l = "ALLOCATOR" -> "lock_KHEAP_COUNTERS"
      [] l = "KHEAP_COUNTERS" /\ op \in {"kalloc", "kdealloc"} -> "count"
      [] l = "KHEAP_COUNTERS" -> "stats"
      [] OTHER -> "body"

\* the first step of entry point op
FirstPc(op) ==
    IF op \in {"kalloc", "kdealloc", "heap_stats", "memory_overview"}
    THEN "lock_ALLOCATOR" ELSE "lock_APPS"

\* context c enters entry point op
call(c, op, id, size, align, ptr) ==
    /\ Running(c)
    /\ flow[c].op = "none"
    /\ flow' = [flow EXCEPT ![c] = [op |-> op, pc |-> FirstPc(op), id |-> id, size |-> size,
                                    align |-> align, ptr |-> ptr, k |-> ZeroStats]]

\* spin::Mutex::lock in context c: taken when the lock is free; while it is
\* not, the compare-exchange loop repeats and the context makes no step.
spin_lock(c) ==
    /\ Running(c)
    /\ LockAt(flow[c].pc) # ""
    /\ locks[LockAt(flow[c].pc)] = "free"
    /\ locks' = [locks EXCEPT ![LockAt(flow[c].pc)] = c]
    /\ flow' = [flow EXCEPT ![c].pc = AfterLock(flow[c].op, LockAt(flow[c].pc))]
    /\ UNCHANGED <<mem_vars, kheap_vars, handler, HUD_ENABLED, NEEDS_REDRAW, TICK_COUNT>>

\* kalloc, memory.rs:41: ALLOCATOR.alloc(layout), the lock released at the
\* end of the statement; a null ptr is returned at once
kalloc_alloc(c) ==
    /\ Running(c)
    /\ flow[c].op = "kalloc" /\ flow[c].pc = "alloc"
    /\ LET r == allocate_first_fit(kheap, flow[c].size, flow[c].align)
       IN  /\ kheap' = r.heap
           /\ locks' = [locks EXCEPT !["ALLOCATOR"] = "free"]
           /\ IF r.ok
              THEN /\ khanded' = khanded \cup {<<r.ptr, flow[c].size, flow[c].align>>}
                   /\ flow' = [flow EXCEPT ![c].pc = "lock_KHEAP_COUNTERS", ![c].ptr = r.ptr]
                   /\ UNCHANGED last
              ELSE /\ flow' = [flow EXCEPT ![c] = IdleFlow]
                   /\ last' = Call("kalloc", 0, flow[c].size, NULL, NULL)
                   /\ UNCHANGED khanded
    /\ UNCHANGED <<bump_offset, free_regions, slots, handed, unregistered, released, hole_layout, panicked>>
    /\ UNCHANGED <<kcounters, handler, HUD_ENABLED, NEEDS_REDRAW, TICK_COUNT>>

\* a counter update that leaves peak_used as it was
kalloc_count_stale_peak(c) ==
    /\ Running(c)
    /\ flow[c].op = "kalloc" /\ flow[c].pc = "count"
    /\ kcounters' = [kcounters EXCEPT
                        !.used = @ + flow[c].size,
                        !.free = saturating_sub(@, flow[c].size),
                        !.total = HEAP_SIZE,
                        !.alloc_count = @ + 1]
    /\ locks' = [locks EXCEPT !["KHEAP_COUNTERS"] = "free"]
    /\ flow' = [flow EXCEPT ![c] = IdleFlow]
    /\ last' = Call("kalloc", 0, flow[c].size, NULL, flow[c].ptr)
    /\ UNCHANGED <<bump_offset, free_regions, slots, handed, unregistered, released, hole_layout, panicked>>
    /\ UNCHANGED <<kheap, khanded, handler, HUD_ENABLED, NEEDS_REDRAW, TICK_COUNT>>

\* kalloc, memory.rs:43-49: the counters updated under KHEAP_COUNTERS
kalloc_count(c) ==
    /\ Running(c)
    /\ flow[c].op = "kalloc" /\ flow[c].pc = "count"
    /\ LET used == kcounters.used + flow[c].size
       IN  kcounters' = [kcounters EXCEPT
                           !.used = used,
                           !.free = saturating_sub(@, flow[c].size),
                           !.total = HEAP_SIZE,
                           !.alloc_count = @ + 1,
                           !.peak_used = IF used > @ THEN used ELSE @]
    /\ locks' = [locks EXCEPT !["KHEAP_COUNTERS"] = "free"]
    /\ flow' = [flow EXCEPT ![c] = IdleFlow]
    /\ last' = Call("kalloc", 0, flow[c].size, NULL, flow[c].ptr)
    /\ UNCHANGED <<bump_offset, free_regions, slots, handed, unregistered, released, hole_layout, panicked>>
    /\ UNCHANGED <<kheap, khanded, handler, HUD_ENABLED, NEEDS_REDRAW, TICK_COUNT>>

\* kdealloc, memory.rs:57: ALLOCATOR.dealloc(ptr, layout) of a block kalloc
\* returned (the caller's obligation)
kdealloc_dealloc(c) ==
    /\ Running(c)
    /\ flow[c].op = "kdealloc" /\ flow[c].pc = "dealloc"
    /\ kheap' = deallocate(kheap, flow[c].ptr, flow[c].size).heap
    /\ khanded' = {b \in khanded : b[1] # flow[c].ptr}
    /\ locks' = [locks EXCEPT !["ALLOCATOR"] = "free"]
    /\ flow' = [flow EXCEPT ![c].pc = "lock_KHEAP_COUNTERS"]
    /\ UNCHANGED <<mem_vars, kcounters, handler, HUD_ENABLED, NEEDS_REDRAW, TICK_COUNT>>

\* kdealloc, memory.rs:58-62
kdealloc_count(c) ==
    /\ Running(c)
    /\ flow[c].op = "kdealloc" /\ flow[c].pc = "count"
    /\ kcounters' = [kcounters EXCEPT
                        !.used = saturating_sub(@, flow[c].size),
                        !.free = @ + flow[c].size,
                        !.total = HEAP_SIZE,
                        !.dealloc_count = @ + 1]
    /\ locks' = [locks EXCEPT !["KHEAP_COUNTERS"] = "free"]
    /\ flow' = [flow EXCEPT ![c] = IdleFlow]
    /\ last' = Call("kdealloc", 0, flow[c].size, flow[c].ptr, TRUE)
    /\ UNCHANGED <<bump_offset, free_regions, slots, handed, unregistered, released, hole_layout, panicked>>
    /\ UNCHANGED <<kheap, khanded, handler, HUD_ENABLED, NEEDS_REDRAW, TICK_COUNT>>

\* heap_stats, memory.rs:67-74, with both ALLOCATOR and KHEAP_COUNTERS held;
\* both guards are dropped on return.  Inside memory_overview the result is
\* kept in k and the flow goes on to APPS.lock().
heap_stats(c) ==
    /\ Running(c)
    /\ flow[c].op \in {"heap_stats", "memory_overview"} /\ flow[c].pc = "stats"
    /\ LET used == kheap.used
           free == HeapFree(kheap)
           k == [kcounters EXCEPT !.used = used, !.free = free, !.total = used + free]
       IN  /\ kcounters' = k
           /\ IF flow[c].op = "heap_stats"
              THEN /\ flow' = [flow EXCEPT ![c] = IdleFlow]
                   /\ last' = Call("heap_stats", 0, 0, NULL, k)
              ELSE /\ flow' = [flow EXCEPT ![c].pc = "lock_APPS", ![c].k = k]
                   /\ UNCHANGED last
    /\ locks' = [locks EXCEPT !["KHEAP_COUNTERS"] = "free", !["ALLOCATOR"] = "free"]
    /\ UNCHANGED <<bump_offset, free_regions, slots, handed, unregistered, released, hole_layout, panicked>>
    /\ UNCHANGED <<kheap, khanded, handler, HUD_ENABLED, NEEDS_REDRAW, TICK_COUNT>>

\* a system_stats that counts the user arena as reserved
system_stats_with_arena ==
    LET total == TOTAL_RAM
        reserved == HEAP_SIZE + USER_ARENA_SIZE
    IN  [reserved |-> reserved, free |-> saturating_sub(total, reserved), total |-> total]

\* system_stats, memory.rs:86-93
system_stats ==
    LET total == TOTAL_RAM
        reserved == HEAP_SIZE
    IN  [reserved |-> reserved, free |-> saturating_sub(total, reserved), total |-> total]

\* memory_overview, memory.rs:362-379, with APPS held: every live slot's
\* stats are refreshed and reported next to the kernel heap's stats k
memory_overview(k) ==
    /\ ~panicked
    /\ slots' = [i \in SlotIdx |->
                   IF slots[i].initialized
                   THEN [slots[i] EXCEPT !.stats = refreshed(slots[i])]
                   ELSE slots[i]]
    /\ last' = Call("memory_overview", 0, 0, NULL,
                    [system |-> system_stats,
                     kernel_heap |-> k,
                     user_arena_total |-> USER_ARENA_SIZE,
                     user_arena_free_for_new_regions |-> arena_free_for_new_regions,
                     apps |-> [i \in SlotIdx |->
                                 IF slots[i].initialized
                                 THEN Some(<<slots[i].id[1], refreshed(slots[i])>>)
                                 ELSE None]])
    /\ released' = NoRelease
    /\ hole_layout' = hole_layout
    /\ UNCHANGED <<bump_offset, free_regions, handed, unregistered, panicked>>

\* the critical section of an arena entry point, APPS held by c, and its
\* return
apps_unlock(c) ==
    /\ Running(c)
    /\ flow[c].pc = "body"
    /\ locks' = [locks EXCEPT !["APPS"] = "free"]
    /\ flow' = [flow EXCEPT ![c] = IdleFlow]
    /\ UNCHANGED <<kheap_vars, handler, HUD_ENABLED, NEEDS_REDRAW, TICK_COUNT>>

register_app_body(c) ==
    /\ flow[c].op = "register_app"
    /\ apps_unlock(c)
    /\ register_app(flow[c].id, flow[c].size)

unregister_app_body(c) ==
    /\ flow[c].op = "unregister_app"
    /\ apps_unlock(c)
    /\ unregister_app(flow[c].id)

app_alloc_body(c) ==
    /\ flow[c].op = "app_alloc"
    /\ apps_unlock(c)
    /\ app_alloc(flow[c].id, flow[c].size, flow[c].align)

app_dealloc_body(c) ==
    /\ flow[c].op = "app_dealloc"
    /\ apps_unlock(c)
    /\ app_dealloc(flow[c].id, flow[c].ptr, flow[c].size, flow[c].align)

app_stats_body(c) ==
    /\ flow[c].op = "app_stats"
    /\ apps_unlock(c)
    /\ app_stats(flow[c].id)

memory_overview_body(c) ==
    /\ flow[c].op = "memory_overview"
    /\ apps_unlock(c)
    /\ memory_overview(flow[c].k)

\* thud::enable and thud::disable (the "hud on" and "hud off" commands)
thud_enable ==
    /\ Running("main") /\ flow["main"].op = "none"
    /\ HUD_ENABLED' = TRUE
    /\ NEEDS_REDRAW' = TRUE
    /\ UNCHANGED <<mem_vars, kheap_vars, locks, flow, handler, TICK_COUNT>>

thud_disable ==
    /\ Running("main") /\ flow["main"].op = "none"
    /\ HUD_ENABLED' = FALSE
    /\ UNCHANGED <<mem_vars, kheap_vars, locks, flow, handler, NEEDS_REDRAW, TICK_COUNT>>

\* The timer interrupt is delivered between two instructions of the main
\* flow, whatever locks it holds.  The handler runs with interrupts disabled
\* and the main flow stands still, so its steps up to the first lock() that
\* the main flow may hold are one step: timer.rs:30-44, on_100hz_tick
\* (thud.rs:43-52, which asks for a redraw when the tick count comes round),
\* poll_draw up to MODULES.lock() (thud.rs:55-62; only poll_draw takes
\* MODULES once interrupts are enabled) and Mem::render entering
\* memory_overview (min.rs:20).  Without a redraw the handler returns.
timer_interrupt_handler ==
    /\ ~panicked
    /\ handler = "none"
    /\ LET count == IF HUD_ENABLED THEN (TICK_COUNT + 1) % HudTicks ELSE TICK_COUNT
           redraw == HUD_ENABLED /\ (NEEDS_REDRAW \/ count = 0)
       IN  /\ TICK_COUNT' = count
           /\ NEEDS_REDRAW' = IF HUD_ENABLED THEN FALSE ELSE NEEDS_REDRAW
           /\ IF redraw
              THEN /\ locks["MODULES"] = "free"
                   /\ locks' = [locks EXCEPT !["MODULES"] = "irq"]
                   /\ handler' = "rendering"
                   /\ flow' = [flow EXCEPT !["irq"] =
                                 [IdleFlow EXCEPT !.op = "memory_overview",
                                                  !.pc = FirstPc("memory_overview")]]
              ELSE /\ handler' = "none"
                   /\ UNCHANGED <<locks, flow>>
    /\ UNCHANGED <<mem_vars, kheap_vars, HUD_ENABLED>>

\* memory_overview has returned to Mem::render: the HUD row is drawn (the
\* console takes its lock with interrupts disabled, console.rs:981), the
\* MODULES guard is dropped (thud.rs:66-85), the handler's second call of
\* poll_draw finds NEEDS_REDRAW false, and the handler returns (timer.rs:44-50)
timer_interrupt_return ==
    /\ ~panicked
    /\ handler = "rendering"
    /\ flow["irq"].op = "none"
    /\ locks' = [locks EXCEPT !["MODULES"] = "free"]
    /\ handler' = "none"
    /\ UNCHANGED <<mem_vars, kheap_vars, flow, HUD_ENABLED, NEEDS_REDRAW, TICK_COUNT>>

\* The pointers the main flow passes to app_dealloc in SpecIrq: the blocks
\* handed out, and the end of every live region.
IrqDeallocPtrs ==
    UNION {{b[1] : b \in handed[i]} : i \in SlotIdx}
    \cup {slots[i].start + slots[i].size : i \in {j \in SlotIdx : slots[j].initialized}}

\* the main flow enters an entry point
main_call(op, id, size, align, ptr) ==
    /\ call("main", op, id, size, align, ptr)
    /\ UNCHANGED <<mem_vars, kheap_vars, locks, handler, HUD_ENABLED, NEEDS_REDRAW, TICK_COUNT>>

MainCall ==
    \/ \E size \in KAllocSizes, align \in KAllocAligns :
          /\ kcounters.alloc_count + AllocsCounted < MaxAllocCount
          /\ main_call("kalloc", 0, size, align, NULL)
    \/ \E b \in khanded : main_call("kdealloc", 0, b[2], b[3], b[1])
    \/ main_call("heap_stats", 0, 0, 0, NULL)
    \/ main_call("memory_overview", 0, 0, 0, NULL)
    \/ \E id \in IrqIds, q \in IrqQuotas : main_call("register_app", id, q, 0, NULL)
    \/ \E id \in IrqIds : main_call("unregister_app", id, 0, 0, NULL)
    \/ \E id \in IrqIds, size \in IrqSizes, align \in AllocAligns :
          /\ kcounters.alloc_count + AllocsCounted < MaxAllocCount
          /\ main_call("app_alloc", id, size, align, NULL)
    \/ \E id \in IrqIds, ptr \in IrqDeallocPtrs, size \in IrqSizes, align \in AllocAligns :
          /\ DeallocsCounted < MaxDeallocCount
          /\ main_call("app_dealloc", id, size, align, ptr)
    \/ \E id \in IrqIds : main_call("app_stats", id, 0, 0, NULL)

\* Every entry point runs inside its lock, and a context that finds the lock
\* taken does not enter: the entry points of the arena are atomic steps.
MemNext ==
    \/ \E id \in AppIds, q \in Quotas :
          register_app(id, q) /\ UNCHANGED <<kheap_vars, irq_vars, obs_vars, sys_vars>>
    \/ \E id \in AppIds :
          unregister_app(id) /\ UNCHANGED <<kheap_vars, irq_vars, obs_vars, sys_vars>>
    \/ \E id \in AppIds, size \in AllocSizes, align \in AllocAligns :
          app_alloc(id, size, align) /\ UNCHANGED <<kheap_vars, irq_vars, obs_vars, sys_vars>>
    \/ \E id \in AppIds, ptr \in DeallocPtrs, size \in AllocSizes, align \in AllocAligns :
          app_dealloc(id, ptr, size, align) /\ UNCHANGED <<kheap_vars, irq_vars, obs_vars, sys_vars>>
    \/ \E id \in AppIds :
          app_stats(id) /\ UNCHANGED <<kheap_vars, irq_vars, obs_vars, sys_vars>>

ArenaNext ==
    \/ \E id \in ArenaIds, q \in ArenaQuotas :
          register_app(id, q) /\ UNCHANGED <<kheap_vars, irq_vars, obs_vars, sys_vars>>
    \/ \E id \in ArenaIds :
          unregister_app(id) /\ UNCHANGED <<kheap_vars, irq_vars, obs_vars, sys_vars>>

IrqNext ==
    \/ MainCall /\ UNCHANGED <<obs_vars, sys_vars>>
    \/ \E c \in Ctx : spin_lock(c) /\ UNCHANGED <<obs_vars, sys_vars>>
    \/ kalloc_alloc("main") /\ UNCHANGED <<obs_vars, sys_vars>>
    \/ kalloc_count("main") /\ UNCHANGED <<obs_vars, sys_vars>>
    \/ kdealloc_dealloc("main") /\ UNCHANGED <<obs_vars, sys_vars>>
    \/ kdealloc_count("main") /\ UNCHANGED <<obs_vars, sys_vars>>
    \/ \E c \in Ctx : heap_stats(c) /\ UNCHANGED <<obs_vars, sys_vars>>
    \/ register_app_body("main") /\ UNCHANGED <<obs_vars, sys_vars>>
    \/ unregister_app_body("main") /\ UNCHANGED <<obs_vars, sys_vars>>
    \/ app_alloc_body("main") /\ UNCHANGED <<obs_vars, sys_vars>>
    \/ app_dealloc_body("main") /\ UNCHANGED <<obs_vars, sys_vars>>
    \/ app_stats_body("main") /\ UNCHANGED <<obs_vars, sys_vars>>
    \/ \E c \in Ctx : memory_overview_body(c) /\ UNCHANGED <<obs_vars, sys_vars>>
    \/ thud_enable /\ UNCHANGED <<obs_vars, sys_vars>>
    \/ thud_disable /\ UNCHANGED <<obs_vars, sys_vars>>
    \/ timer_interrupt_handler /\ UNCHANGED <<obs_vars, sys_vars>>
    \/ timer_interrupt_return /\ UNCHANGED <<obs_vars, sys_vars>>

\* ------------------------------------------------------------------------
\* The entry points of the kernel heap as single steps (no interrupt
\* arrives between their critical sections)
\* ------------------------------------------------------------------------
\* what heap_stats stores in KHEAP_COUNTERS and returns, memory.rs:67-74
heap_stats_result ==
    LET used == kheap.used
        free == HeapFree(kheap)
    IN  [kcounters EXCEPT !.used = used, !.free = free, !.total = used + free]

\* kalloc, memory.rs:39-53
kalloc(size, align) ==
    /\ ~panicked
    /\ LET r == allocate_first_fit(kheap, size, align)
           used == kcounters.used + size
       IN  IF r.ok
           THEN /\ kheap' = r.heap
                /\ kcounters' = [kcounters EXCEPT
                                    !.used = used,
                                    !.free = saturating_sub(@, size),
                                    !.total = HEAP_SIZE,
                                    !.alloc_count = @ + 1,
                                    !.peak_used = IF used > @ THEN used ELSE @]
                /\ khanded' = khanded \cup {<<r.ptr, size, align>>}
                /\ last' = Call("kalloc", 0, size, NULL, r.ptr)
           ELSE /\ last' = Call("kalloc", 0, size, NULL, NULL)
                /\ UNCHANGED <<kheap, kcounters, khanded>>
    /\ UNCHANGED <<bump_offset, free_regions, slots, handed, unregistered, released, hole_layout, panicked>>

\* a kdealloc that does not count the call
kdealloc_uncounted(ptr, size, align) ==
    /\ ~panicked
    /\ kheap' = deallocate(kheap, ptr, size).heap
    /\ kcounters' = [kcounters EXCEPT
                        !.used = saturating_sub(@, size),
                        !.free = @ + size,
                        !.total = HEAP_SIZE]
    /\ khanded' = {b \in khanded : b[1] # ptr}
    /\ last' = Call("kdealloc", 0, size, ptr, TRUE)
    /\ UNCHANGED <<bump_offset, free_regions, slots, handed, unregistered, released, hole_layout, panicked>>

\* kdealloc, memory.rs:55-63, of a block kalloc returned (the caller's
\* obligation)
kdealloc(ptr, size, align) ==
    /\ ~panicked
    /\ kheap' = deallocate(kheap, ptr, size).heap
    /\ kcounters' = [kcounters EXCEPT
                        !.used = saturating_sub(@, size),
                        !.free = @ + size,
                        !.total = HEAP_SIZE,
                        !.dealloc_count = @ + 1]
    /\ khanded' = {b \in khanded : b[1] # ptr}
    /\ last' = Call("kdealloc", 0, size, ptr, TRUE)
    /\ UNCHANGED <<bump_offset, free_regions, slots, handed, unregistered, released, hole_layout, panicked>>

\* heap_stats, memory.rs:65-75, called on its own
heap_stats_call ==
    /\ ~panicked
    /\ kcounters' = heap_stats_result
    /\ last' = Call("heap_stats", 0, 0, NULL, heap_stats_result)
    /\ UNCHANGED <<bump_offset, free_regions, slots, handed, unregistered, released, hole_layout, panicked>>
    /\ UNCHANGED <<kheap, khanded>>

\* a memory_overview that takes the bytes now in use for the kernel heap's peak
memory_overview_call_peak_now ==
    /\ kcounters' = [heap_stats_result EXCEPT !.peak_used = heap_stats_result.used]
    /\ memory_overview(heap_stats_result)
    /\ UNCHANGED <<kheap, khanded>>

\* memory_overview, memory.rs:358-380: system_stats and heap_stats, then the
\* arena under APPS
memory_overview_call ==
    /\ kcounters' = heap_stats_result
    /\ memory_overview(heap_stats_result)
    /\ UNCHANGED <<kheap, khanded>>

\* ------------------------------------------------------------------------
\* History of the observations
\* ------------------------------------------------------------------------
NoCall == [id |-> 0, ptr |-> NULL, size |-> 0, free |-> 0, back |-> FALSE]
NoKCall == [ptr |-> NULL, size |-> 0, used |-> 0, alloc_count |-> 0, dealloc_count |-> 0,
            back |-> FALSE]
NoScenario == [step |-> -1, ptr |-> NULL]

ObsInit ==
    /\ reported = [kernel |-> -1, apps |-> [id \in StatsIds |-> -1]]
    /\ before = NoCall
    /\ kbefore = NoKCall
    /\ scenario = [step |-> 0, ptr |-> NULL]

\* the peak_used that memory_overview result ov lists for id, -1 when it
\* lists none
ListedPeak(ov, id) ==
    LET L == {i \in SlotIdx : ov.apps[i] # None /\ ov.apps[i][1][1] = id}
    IN  IF L = {} THEN -1 ELSE ov.apps[CHOOSE i \in L : TRUE][1][2].peak_used

\* call c is the k-th call of the scripted sequence: register_app,
\* app_alloc, app_stats, app_dealloc of the block app_alloc returned,
\* app_stats, unregister_app, app_stats
ScenarioCall(k, c) ==
    /\ c.id = ScenarioId
    /\ CASE k = 1 -> c.op = "register_app" /\ c.size = ScenarioQuota
         [] k = 2 -> c.op = "app_alloc" /\ c.size = ScenarioSize
         [] k = 4 -> c.op = "app_dealloc" /\ c.size = ScenarioSize /\ c.ptr = scenario.ptr
         [] k = 6 -> c.op = "unregister_app"
         [] k \in {3, 5, 7} -> c.op = "app_stats"
         [] OTHER -> FALSE

\* the history variables after the call recorded in last'
Observe ==
    /\ reported' =
         CASE last'.op = "app_stats" /\ last'.ret # None ->
                [reported EXCEPT !.apps[last'.id] = last'.ret[1].peak_used]
           [] last'.op = "heap_stats" ->
                [reported EXCEPT !.kernel = last'.ret.peak_used]
           [] last'.op = "memory_overview" ->
                [kernel |-> last'.ret.kernel_heap.peak_used,
                 apps |-> [id \in StatsIds |->
                             IF ListedPeak(last'.ret, id) = -1 THEN reported.apps[id]
                             ELSE ListedPeak(last'.ret, id)]]
           [] OTHER -> reported
    /\ before' =
         IF last'.op = "app_alloc" /\ last'.ret # NULL
         THEN [id |-> last'.id, ptr |-> last'.ret, size |-> last'.size,
               free |-> refreshed(slots[find_slot_by_id(last'.id)]).free,
               back |-> FALSE]
         ELSE IF /\ before.ptr # NULL /\ ~before.back
                 /\ last' = Call("app_dealloc", before.id, before.size, before.ptr, TRUE)
         THEN [before EXCEPT !.back = TRUE]
         ELSE IF last'.id = before.id THEN NoCall ELSE before
    /\ kbefore' =
         IF last'.op = "kalloc" /\ last'.ret # NULL
         THEN [ptr |-> last'.ret, size |-> last'.size, used |-> heap_stats_result.used,
               alloc_count |-> kcounters.alloc_count,
               dealloc_count |-> kcounters.dealloc_count, back |-> FALSE]
         ELSE IF /\ kbefore.ptr # NULL /\ ~kbefore.back
                 /\ last' = Call("kdealloc", 0, kbefore.size, kbefore.ptr, TRUE)
         THEN [kbefore EXCEPT !.back = TRUE]
         ELSE IF last'.op \in {"kalloc", "kdealloc"} THEN NoKCall ELSE kbefore
    /\ scenario' =
         IF scenario.step >= 0 /\ ScenarioCall(scenario.step + 1, last')
         THEN [step |-> scenario.step + 1,
               ptr |-> IF scenario.step + 1 = 2 THEN last'.ret ELSE scenario.ptr]
         ELSE NoScenario

StatsNext ==
    \/ \E id \in StatsIds, q \in StatsQuotas :
          register_app(id, q) /\ Observe /\ UNCHANGED <<kheap_vars, irq_vars, sys_vars>>
    \/ \E id \in StatsIds :
          unregister_app(id) /\ Observe /\ UNCHANGED <<kheap_vars, irq_vars, sys_vars>>
    \/ \E id \in StatsIds, size \in StatsSizes, align \in AllocAligns :
          app_alloc(id, size, align) /\ Observe /\ UNCHANGED <<kheap_vars, irq_vars, sys_vars>>
    \/ \E id \in StatsIds, ptr \in DeallocPtrs, size \in StatsSizes, align \in AllocAligns :
          app_dealloc(id, ptr, size, align) /\ Observe /\ UNCHANGED <<kheap_vars, irq_vars, sys_vars>>
    \/ \E id \in StatsIds :
          app_stats(id) /\ Observe /\ UNCHANGED <<kheap_vars, irq_vars, sys_vars>>
    \/ \E size \in KAllocSizes, align \in KAllocAligns :
          /\ kcounters.alloc_count < MaxAllocCount
          /\ kalloc(size, align) /\ Observe /\ UNCHANGED <<irq_vars, sys_vars>>
    \/ \E b \in khanded :
          kdealloc(b[1], b[2], b[3]) /\ Observe /\ UNCHANGED <<irq_vars, sys_vars>>
    \/ heap_stats_call /\ Observe /\ UNCHANGED <<irq_vars, sys_vars>>
    \/ memory_overview_call /\ Observe /\ UNCHANGED <<irq_vars, sys_vars>>

\* The pointers a caller passes to app_dealloc in SpecEdge: the blocks
\* handed out, and the last word of every live region.
EdgeDeallocPtrs ==
    UNION {{b[1] : b \in handed[i]} : i \in SlotIdx}
    \cup {slots[i].start + slots[i].size - HOLE_MIN_SIZE \div 2 :
             i \in {j \in SlotIdx : slots[j].initialized}}

EdgeNext ==
    \/ \E id \in EdgeIds, q \in EdgeQuotas :
          register_app(id, q) /\ UNCHANGED <<kheap_vars, irq_vars, obs_vars, sys_vars>>
    \/ \E id \in EdgeIds :
          unregister_app(id) /\ UNCHANGED <<kheap_vars, irq_vars, obs_vars, sys_vars>>
    \/ \E id \in EdgeIds, size \in EdgeSizes, align \in AllocAligns :
          app_alloc(id, size, align) /\ UNCHANGED <<kheap_vars, irq_vars, obs_vars, sys_vars>>
    \/ \E id \in EdgeIds, ptr \in EdgeDeallocPtrs, size \in EdgeSizes, align \in AllocAligns :
          app_dealloc(id, ptr, size, align) /\ UNCHANGED <<kheap_vars, irq_vars, obs_vars, sys_vars>>
    \/ \E id \in EdgeIds :
          app_stats(id) /\ UNCHANGED <<kheap_vars, irq_vars, obs_vars, sys_vars>>

\* The pointers a caller passes to app_dealloc in SpecOverview: the blocks
\* handed out to any app and the start of every live region.
OverviewDeallocPtrs ==
    UNION {{b[1] : b \in handed[i]} : i \in SlotIdx}
    \cup {slots[i].start : i \in {j \in SlotIdx : slots[j].initialized}}

OverviewNext ==
    \/ \E id \in OverviewIds, q \in OverviewQuotas :
          register_app(id, q) /\ UNCHANGED <<kheap_vars, irq_vars, obs_vars, sys_vars>>
    \/ \E id \in OverviewIds :
          unregister_app(id) /\ UNCHANGED <<kheap_vars, irq_vars, obs_vars, sys_vars>>
    \/ \E id \in OverviewIds, size \in OverviewSizes, align \in AllocAligns :
          app_alloc(id, size, align) /\ UNCHANGED <<kheap_vars, irq_vars, obs_vars, sys_vars>>
    \/ \E id \in OverviewIds, ptr \in OverviewDeallocPtrs, size \in OverviewSizes, align \in AllocAligns :
          app_dealloc(id, ptr, size, align) /\ UNCHANGED <<kheap_vars, irq_vars, obs_vars, sys_vars>>
    \/ \E id \in OverviewIds :
          app_stats(id) /\ UNCHANGED <<kheap_vars, irq_vars, obs_vars, sys_vars>>
    \/ memory_overview_call /\ UNCHANGED <<irq_vars, obs_vars, sys_vars>>

\* system_stats called on its own
system_stats_call ==
    /\ ~panicked
    /\ last' = Call("system_stats", 0, 0, NULL, system_stats)
    /\ released' = NoRelease
    /\ hole_layout' = hole_layout
    /\ UNCHANGED <<bump_offset, free_regions, slots, handed, unregistered, panicked>>

SysNext ==
    \/ system_stats_call /\ UNCHANGED <<kheap_vars, irq_vars, obs_vars, sys_vars>>
    \/ memory_overview_call /\ UNCHANGED <<irq_vars, obs_vars, sys_vars>>
    \/ heap_stats_call /\ UNCHANGED <<irq_vars, obs_vars, sys_vars>>
    \/ \E id \in StatsIds, q \in StatsQuotas :
          register_app(id, q) /\ UNCHANGED <<kheap_vars, irq_vars, obs_vars, sys_vars>>
    \/ \E id \in StatsIds :
          unregister_app(id) /\ UNCHANGED <<kheap_vars, irq_vars, obs_vars, sys_vars>>
    \/ \E id \in StatsIds, size \in StatsSizes, align \in AllocAligns :
          app_alloc(id, size, align) /\ UNCHANGED <<kheap_vars, irq_vars, obs_vars, sys_vars>>

SlotsNext ==
    \/ \E id \in SlotsIds, q \in SlotsQuotas :
          register_app(id, q) /\ UNCHANGED <<kheap_vars, irq_vars, obs_vars, sys_vars>>
    \/ \E id \in SlotsIds :
          unregister_app(id) /\ UNCHANGED <<kheap_vars, irq_vars, obs_vars, sys_vars>>

vars == <<mem_vars, kheap_vars, irq_vars, obs_vars, sys_vars>>

\* init_memory on the machine the other specifications run on
BootInit == TOTAL_RAM = BootTotal

\* init_memory on a machine with any of the totals BootTotals
AnyBootInit == TOTAL_RAM \in BootTotals

Init == MemInit /\ KHeapInit /\ IrqInit /\ ObsInit /\ BootInit
SysInit == MemInit /\ KHeapInit /\ IrqInit /\ ObsInit /\ AnyBootInit
Next == MemNext

Spec == Init /\ [][Next]_vars
SpecArena == Init /\ [][ArenaNext]_vars
SpecIrq == Init /\ [][IrqNext]_vars
SpecStats == Init /\ [][StatsNext]_vars
SpecSlots == Init /\ [][SlotsNext]_vars
SpecOverview == Init /\ [][OverviewNext]_vars
SpecEdge == Init /\ [][EdgeNext]_vars
SpecSys == SysInit /\ [][SysNext]_vars

\* ========================================================================
\* Properties
\* ========================================================================
IsLive(id) == \E i \in SlotIdx : slots[i].initialized /\ slots[i].id = Some(id)
LiveSlots == {i \in SlotIdx : slots[i].initialized}
SlotOf(id) == CHOOSE i \in SlotIdx : slots[i].initialized /\ slots[i].id = Some(id)

\* number of owners of arena offset o: live regions and free_regions entries
Owners(o) ==
    Cardinality({i \in LiveSlots : slots[i].offset <= o /\ o < slots[i].offset + slots[i].size})
    + Cardinality({k \in 1..Len(free_regions) :
                     free_regions[k][1] <= o /\ o < free_regions[k][1] + free_regions[k][2]})

\* The offsets at which ownership can change: 0 and the start and end of
\* every region.  Owners is constant between two consecutive ones.
Breakpoints ==
    {0} \cup UNION {{slots[i].offset, slots[i].offset + slots[i].size} : i \in LiveSlots}
        \cup UNION {{free_regions[k][1], free_regions[k][1] + free_regions[k][2]} :
                      k \in 1..Len(free_regions)}

\* C1, as claimed: every byte offset in [0, bump_offset) belongs to exactly
\* one live slot's region or free_regions entry.
C1_EveryOffsetOwnedOnce ==
    \A b \in Breakpoints : b < bump_offset => Owners(b) = 1

\* C1, amended: no byte offset belongs to more than one live slot's region
\* or free_regions entry, and every such region lies inside
\* [0, bump_offset); an offset below bump_offset may belong to none.
C1_NoOffsetOwnedTwice ==
    /\ \A b \in Breakpoints : Owners(b) <= 1
    /\ \A b \in Breakpoints : b <= bump_offset

\* a live region, a free entry and an alignment gap between them
C1_Witness ==
    /\ LiveSlots # {}
    /\ Len(free_regions) > 0
    /\ \E b \in Breakpoints : b < bump_offset /\ Owners(b) = 0

\* C2: the regions of two distinct live slots are disjoint.
C2_LiveRegionsDisjoint ==
    \A i, j \in LiveSlots :
        i # j => \/ slots[i].offset + slots[i].size <= slots[j].offset
                 \/ slots[j].offset + slots[j].size <= slots[i].offset

\* two live slots, one of them in a reused free region below the other
C2_Witness ==
    /\ unregistered
    /\ \E i, j \in LiveSlots :
          /\ slots[i].offset < slots[j].offset
          /\ slots[i].size > 0 /\ slots[j].size > 0
          /\ last.op = "register_app" /\ last.ret = TRUE /\ slots[i].id = Some(last.id)

\* the locks of memory.rs that the main flow holds
MemoryLocks == {"ALLOCATOR", "KHEAP_COUNTERS", "APPS"}
HeldByMain == {l \in MemoryLocks : locks[l] = "main"}

\* C3: the critical sections of the memory entry points suppress interrupt
\* delivery: timer_interrupt_handler never starts while the main flow holds
\* ALLOCATOR, KHEAP_COUNTERS or APPS.
C3_NoInterruptInsideCriticalSection ==
    [][timer_interrupt_handler => HeldByMain = {}]_vars

\* the context is at a lock() whose lock the other context holds
Spinning(c) ==
    /\ Running(c)
    /\ LockAt(flow[c].pc) # ""
    /\ locks[LockAt(flow[c].pc)] \notin {"free", c}

\* C4: every invocation of a memory entry point returns: no context is ever
\* at a lock() whose lock is held by the context it interrupted, which
\* cannot run, and so cannot release it, before the interrupting context
\* returns.
C4_NoCallSpinsOnInterruptedHolder ==
    \A c \in Ctx : ~Spinning(c)

RECURSIVE SumOver(_, _)
SumOver(f, S) ==
    IF S = {} THEN 0
    ELSE LET i == CHOOSE i \in S : TRUE IN f[i] + SumOver(f, S \ {i})

\* the quotas of the live apps other than id (a slot's size is its quota)
OtherLive(id) == {i \in LiveSlots : slots[i].id # Some(id)}
QuotaSum(id) == SumOver([i \in SlotIdx |-> slots[i].size], OtherLive(id))
RoundedQuotaSum(id) ==
    SumOver([i \in SlotIdx |-> align_up(slots[i].size, USER_ARENA_ALIGN)], OtherLive(id))

C6_AppIdUnique ==
    \A i, j \in LiveSlots : i # j => slots[i].id # slots[j].id

\* register_app returned true for a live id whose region is not of the
\* quota asked for (so no slot was bound by this call) while a slot was free
C6_Witness ==
    /\ last.op = "register_app" /\ last.ret = TRUE
    /\ IsLive(last.id) /\ slots[SlotOf(last.id)].size # last.size
    /\ \E i \in SlotIdx : ~slots[i].initialized

\* C7: register_app of an id that is already live returns true and changes
\* nothing: no slot (region, stats, heap), not bump_offset, not free_regions.
C7_ReRegisterIsNoOp ==
    [][(last'.op = "register_app" /\ IsLive(last'.id))
       => /\ last'.ret = TRUE
          /\ UNCHANGED <<bump_offset, free_regions, slots, handed, panicked>>]_vars

\* register_app returned true for a live id that has allocated from its
\* heap, with a quota other than its region's size
C7_Witness ==
    /\ last.op = "register_app" /\ last.ret = TRUE
    /\ IsLive(last.id)
    /\ slots[SlotOf(last.id)].size # last.size
    /\ slots[SlotOf(last.id)].stats.alloc_count > 0
    /\ slots[SlotOf(last.id)].heap.used > 0

RegionContains(i, p) == slots[i].start <= p /\ p < slots[i].start + slots[i].size
HandedPtrs(i) == {b[1] : b \in handed[i]}

\* C8, as claimed: app_dealloc returns false for every ptr that app_alloc
\* has not handed out to that app (and app_dealloc not taken back).
C8_DeallocRejectsUnallocated ==
    [][(/\ last'.op = "app_dealloc"
        /\ ~panicked'
        /\ ~(IsLive(last'.id) /\ last'.ptr \in HandedPtrs(SlotOf(last'.id))))
       => last'.ret = FALSE]_vars

\* C8, amended: app_dealloc returns false exactly when id is not registered
\* or ptr lies outside the region granted to id, which covers every pointer
\* of another app; a ptr inside id's region is not rejected, whether or not
\* app_alloc handed it out.
C8_DeallocRejectsOutsideRegion ==
    last.op = "app_dealloc"
    => ((~panicked /\ last.ret = FALSE)
        <=> ~(IsLive(last.id) /\ RegionContains(SlotOf(last.id), last.ptr)))

\* app_dealloc returned false for a block handed out to another app
C8_Witness ==
    /\ last.op = "app_dealloc" /\ ~panicked /\ last.ret = FALSE
    /\ IsLive(last.id)
    /\ \E j \in LiveSlots : j # SlotOf(last.id) /\ last.ptr \in HandedPtrs(j)

\* C9: a non-null pointer returned by app_alloc(id, size, align) designates
\* a block [ptr, ptr + size) inside the region granted to id.
C9_AllocInsideRegion ==
    (last.op = "app_alloc" /\ last.ret # NULL)
    => /\ IsLive(last.id)
       /\ slots[SlotOf(last.id)].start <= last.ret
       /\ last.ret + last.size <= slots[SlotOf(last.id)].start + slots[SlotOf(last.id)].size

\* C10: app_dealloc with ptr outside the region of id's slot returns false
\* and changes no slot (heap, stats), nor anything else of the arena.
C10_OutOfRegionDeallocIsNoOp ==
    [][(/\ last'.op = "app_dealloc"
        /\ IsLive(last'.id)
        /\ ~RegionContains(SlotOf(last'.id), last'.ptr))
       => /\ last'.ret = FALSE
          /\ UNCHANGED <<slots, bump_offset, free_regions, handed, panicked>>]_vars

\* app_dealloc returned false for the address one past the end of the
\* region of an app that holds a block
C10_Witness ==
    /\ last.op = "app_dealloc" /\ ~panicked /\ last.ret = FALSE
    /\ IsLive(last.id)
    /\ last.ptr = slots[SlotOf(last.id)].start + slots[SlotOf(last.id)].size
    /\ handed[SlotOf(last.id)] # {}

\* used + free == total in a stats value
AddsUp(st) == st.used + st.free = st.total

\* C11: every stats value returned by app_stats, returned by heap_stats, or
\* listed for an app by memory_overview has used + free == total.
C11_StatsAddUp ==
    /\ (last.op = "app_stats" /\ last.ret # None) => AddsUp(last.ret[1])
    /\ last.op = "heap_stats" => AddsUp(last.ret)
    /\ last.op = "memory_overview"
       => \A i \in SlotIdx : last.ret.apps[i] # None => AddsUp(last.ret.apps[i][1][2])

\* C12, as claimed: the peak_used an observation reports for the kernel
\* heap, and for each AppId, is at least the value any earlier observation
\* reported for it.
C12_ReportedPeakNeverDecreases ==
    [][/\ reported'.kernel >= reported.kernel
       /\ \A id \in StatsIds : reported'.apps[id] >= reported.apps[id]]_vars

\* C12, amended: the peak_used of the kernel heap never decreases, and the
\* peak_used of an app never decreases while the app stays registered;
\* unregister_app clears it, and a later registration of the same AppId
\* starts again from 0.
C12_PeakNeverDecreasesWhileRegistered ==
    [][/\ kcounters'.peak_used >= kcounters.peak_used
       /\ heap_stats_result'.peak_used >= heap_stats_result.peak_used
       /\ \A i \in SlotIdx :
             (slots[i].initialized /\ slots'[i].initialized)
             => /\ slots'[i].id = slots[i].id
                /\ slots'[i].stats.peak_used >= slots[i].stats.peak_used
                /\ refreshed(slots'[i]).peak_used >= refreshed(slots[i]).peak_used]_vars

\* app_stats reports, for an app whose blocks have all been given back, the
\* peak its earlier block left
C12_Witness ==
    /\ last.op = "app_stats" /\ last.ret # None
    /\ last.ret[1].used = 0
    /\ last.ret[1].peak_used = ScenarioSize
    /\ reported.apps[last.id] = ScenarioSize
    /\ kcounters.peak_used > heap_stats_result.used

\* free_for_new_regions(): the bytes of the arena above bump_offset plus the
\* bytes of the regions in free_regions
FreeForNewRegions ==
    saturating_sub(ArenaPages * USER_ARENA_ALIGN, bump_offset)
    + SumOver([k \in 1..Len(free_regions) |-> free_regions[k][2]], 1..Len(free_regions))

\* C13: register_app(id, q) for an id that is not live, with q greater than
\* free_for_new_regions(), returns false and leaves bump_offset,
\* free_regions and every slot, hence free_for_new_regions(), unchanged.
C13_RegisterOverFreeIsNoOp ==
    [][(/\ last'.op = "register_app"
        /\ ~IsLive(last'.id)
        /\ last'.size > FreeForNewRegions)
       => /\ last'.ret = FALSE
          /\ ~panicked'
          /\ UNCHANGED <<bump_offset, free_regions, slots>>
          /\ FreeForNewRegions' = FreeForNewRegions]_vars

\* register_app returned false for a quota over the free bytes although a
\* slot was free and some bytes were left
C13_Witness ==
    /\ last.op = "register_app" /\ last.ret = FALSE
    /\ ~IsLive(last.id)
    /\ last.size > FreeForNewRegions
    /\ FreeForNewRegions > 0
    /\ find_free_slot # 0

\* C14: when all MAX_APPS slots are live, register_app of a further id
\* returns false whatever bytes the arena has left; in particular, when
\* MAX_APPS + 1 distinct ids are registered with quota 1 each, every call
\* but the last returns true and the last returns false (no app has been
\* unregistered, so every earlier call found a slot and a page).
C14_SlotTableExhaustion ==
    [][(/\ last'.op = "register_app"
        /\ ~IsLive(last'.id))
       => /\ Cardinality(LiveSlots) = MAX_APPS => (last'.ret = FALSE /\ ~panicked')
          /\ (last'.size = 1 /\ ~unregistered)
             => /\ ~panicked'
                /\ last'.ret = TRUE <=> Cardinality(LiveSlots) < MAX_APPS]_vars
\* the free_regions entries a request of `bytes` bytes fits in
FittingEntries(bytes) == {k \in 1..Len(free_regions) : free_regions[k][2] >= bytes}

C16_RoundTripRestoresFree ==
    [][(/\ before.ptr # NULL /\ ~before.back
        /\ last'.op = "app_dealloc"
        /\ last'.id = before.id /\ last'.ptr = before.ptr /\ last'.size = before.size)
       => /\ last'.ret = TRUE /\ ~panicked'
          /\ before'.back
          /\ \E i \in SlotIdx :
                /\ slots'[i].initialized /\ slots'[i].id = Some(before.id)
                /\ refreshed(slots'[i]).free = before.free]_vars

\* the block has been given back right after it was handed out, by an app
\* that holds another block
C16_Witness ==
    /\ before.back
    /\ last.op = "app_dealloc" /\ last.ret = TRUE /\ last.ptr = before.ptr
    /\ IsLive(before.id)
    /\ before.free < slots[SlotOf(before.id)].size
    /\ refreshed(slots[SlotOf(before.id)]).free = before.free

\* the fields of a stats value that the scripted sequence states
StatsAre(st, used, free, total, allocs, deallocs) ==
    /\ st.used = used /\ st.free = free /\ st.total = total
    /\ st.alloc_count = allocs /\ st.dealloc_count = deallocs

\* C17: from the arena as init leaves it, register_app(42, Q) returns true;
\* app_alloc(42, 4096, 8) returns a non-null pointer; app_stats(42) reports
\* used 4096, free Q - 4096, total Q, alloc_count 1, dealloc_count 0;
\* app_dealloc of that pointer returns true and app_stats(42) reports used
\* 0, free Q, dealloc_count 1; unregister_app(42) returns true and
\* app_stats(42) is None.  Q is ScenarioQuota: the 65536 bytes of the
\* sequence in the 1 MiB arena, two pages in the modelled arena.
C17_ScenarioA ==
    /\ scenario.step \in {1, 6} => last.ret = TRUE
    /\ scenario.step = 2 => last.ret # NULL
    /\ scenario.step = 3
       => /\ last.ret # None
          /\ StatsAre(last.ret[1], ScenarioSize, ScenarioQuota - ScenarioSize,
                      ScenarioQuota, 1, 0)
    /\ scenario.step = 4 => (last.ret = TRUE /\ ~panicked)
    /\ scenario.step = 5
       => /\ last.ret # None
          /\ StatsAre(last.ret[1], 0, ScenarioQuota, ScenarioQuota, 1, 1)
    /\ scenario.step = 7 => last.ret = None

\* the whole sequence has run
C17_Witness ==
    /\ scenario.step = 7
    /\ last.op = "app_stats" /\ last.id = ScenarioId /\ last.ret = None
    /\ unregistered

\* C18: when kalloc(s, a) has succeeded and the next kernel-heap call is
\* kdealloc of the returned pointer with the same s and a, heap_stats
\* reports the used bytes it would have reported before the kalloc, and
\* alloc_count and dealloc_count each one more than before it.
C18_KernelRoundTrip ==
    [][(/\ kbefore.ptr # NULL /\ ~kbefore.back
        /\ last'.op = "kdealloc"
        /\ last'.ptr = kbefore.ptr /\ last'.size = kbefore.size)
       => /\ ~panicked'
          /\ kbefore'.back
          /\ heap_stats_result'.used = kbefore.used
          /\ heap_stats_result'.alloc_count = kbefore.alloc_count + 1
          /\ heap_stats_result'.dealloc_count = kbefore.dealloc_count + 1]_vars

\* a block has been given back right after kalloc handed it out, while
\* another block of the kernel heap stays in use
C18_Witness ==
    /\ kbefore.back
    /\ last.op = "kdealloc" /\ last.ptr = kbefore.ptr
    /\ kbefore.used > 0
    /\ heap_stats_result.used = kbefore.used
    /\ kcounters.dealloc_count = kbefore.dealloc_count + 1

\* C19: for an AppId that is not registered, app_alloc returns null,
\* app_dealloc false, app_stats None and unregister_app false, and the call
\* leaves every slot, every app heap, bump_offset and free_regions unchanged.
C19_UnregisteredIdIsRefused ==
    [][(/\ last'.op \in {"app_alloc", "app_dealloc", "app_stats", "unregister_app"}
        /\ ~IsLive(last'.id))
       => /\ last'.op = "app_alloc" => last'.ret = NULL
          /\ last'.op \in {"app_dealloc", "unregister_app"} => last'.ret = FALSE
          /\ last'.op = "app_stats" => last'.ret = None
          /\ UNCHANGED <<slots, bump_offset, free_regions, handed, unregistered, panicked>>]_vars

\* app_dealloc was refused for an id that is not registered, with a pointer
\* into the region of an app that holds a block
C19_Witness ==
    /\ last.op = "app_dealloc" /\ last.ret = FALSE /\ ~panicked
    /\ ~IsLive(last.id)
    /\ \E j \in LiveSlots : last.ptr \in HandedPtrs(j)

\* the main flow is at step pc of kalloc
InKalloc(pc) == flow["main"].op = "kalloc" /\ flow["main"].pc = pc

\* C20: a kalloc that finds no sufficient contiguous space returns null and
\* leaves alloc_count, dealloc_count, used and peak_used of the kernel-heap
\* counters unchanged; a successful kalloc(size, align) raises alloc_count
\* by 1, adds size to the counted used, and sets peak_used to the greater
\* of the old peak_used and the new used.
C20_KallocCounters ==
    [][/\ (InKalloc("alloc") /\ flow'["main"] # flow["main"])
          => IF allocate_first_fit(kheap, flow["main"].size, flow["main"].align).ok
             THEN /\ flow'["main"].op = "kalloc" /\ flow'["main"].ptr # NULL
                  /\ UNCHANGED kcounters
             ELSE /\ flow'["main"].op = "none"
                  /\ last' = Call("kalloc", 0, flow["main"].size, NULL, NULL)
                  /\ UNCHANGED <<kcounters, kheap>>
       /\ (InKalloc("count") /\ flow'["main"].op = "none")
          => /\ last'.op = "kalloc" /\ last'.ret = flow["main"].ptr /\ last'.ret # NULL
             /\ kcounters'.alloc_count = kcounters.alloc_count + 1
             /\ kcounters'.dealloc_count = kcounters.dealloc_count
             /\ kcounters'.used = kcounters.used + flow["main"].size
             /\ kcounters'.peak_used =
                   IF kcounters.peak_used >= kcounters'.used
                   THEN kcounters.peak_used ELSE kcounters'.used]_vars

\* a second kalloc has succeeded and raised peak_used to the new used
C20_Witness ==
    /\ last.op = "kalloc" /\ last.ret # NULL
    /\ flow["main"].op = "none"
    /\ kcounters.alloc_count = 2
    /\ kcounters.used = 2 * last.size
    /\ kcounters.peak_used = kcounters.used

\* the locks of the kernel heap
KernelHeapLocks == {"ALLOCATOR", "KHEAP_COUNTERS"}

\* context c holds the arena lock together with a lock of the kernel heap
HoldsBoth(c) == locks["APPS"] = c /\ \E l \in KernelHeapLocks : locks[l] = c

\* C21: no memory operation takes the arena lock while it holds a lock of
\* the kernel heap, nor a lock of the kernel heap while it holds the arena
\* lock, and the arena lock and a lock of the kernel heap are never held at
\* the same time.
C21_LocksNeverHeldTogether ==
    /\ \A c \in Ctx : ~HoldsBoth(c)
    /\ ~(locks["APPS"] # "free" /\ \E l \in KernelHeapLocks : locks[l] # "free")

\* the part of C21 about one operation: no context holds both
C21_NoContextHoldsBoth == \A c \in Ctx : ~HoldsBoth(c)

\* the fields of a stats value that count calls and record the peak
Tracked(st) == <<st.alloc_count, st.dealloc_count, st.peak_used>>

\* C22: memory_overview leaves every slot's id, region, initialized flag,
\* alloc_count, dealloc_count and peak_used, every app heap, bump_offset,
\* free_regions and the counts of the kernel heap as they were; it only
\* recomputes the cached used, free and total, of the live slots from their
\* heaps and of the kernel heap from the allocator.
C22_OverviewKeepsTrackedState ==
    [][last'.op = "memory_overview"
       => /\ UNCHANGED <<bump_offset, free_regions, kheap, handed, khanded, panicked>>
          /\ Tracked(kcounters') = Tracked(kcounters)
          /\ kcounters'.used = kheap.used /\ kcounters'.free = HeapFree(kheap)
          /\ kcounters'.total = kcounters'.used + kcounters'.free
          /\ \A i \in SlotIdx :
                /\ slots'[i] = [slots[i] EXCEPT !.stats = slots'[i].stats]
                /\ Tracked(slots'[i].stats) = Tracked(slots[i].stats)
                /\ IF slots[i].initialized
                   THEN /\ slots'[i].stats.free = HeapFree(slots[i].heap)
                        /\ slots'[i].stats.total = slots[i].size
                        /\ slots'[i].stats.used =
                              saturating_sub(slots[i].size, HeapFree(slots[i].heap))
                   ELSE slots'[i].stats = slots[i].stats]_vars

\* memory_overview has listed an app that holds a block, and reports for
\* the kernel heap, one block given back, a peak above the bytes in use
C22_Witness ==
    /\ last.op = "memory_overview"
    /\ \E i \in LiveSlots :
          /\ handed[i] # {}
          /\ last.ret.apps[i] = Some(<<slots[i].id[1], slots[i].stats>>)
          /\ slots[i].stats.alloc_count = 1 /\ slots[i].stats.peak_used = ScenarioSize
    /\ last.ret.kernel_heap = kcounters
    /\ kcounters.dealloc_count = 1
    /\ kcounters.peak_used > kcounters.used
    /\ kcounters.free = HEAP_SIZE - kcounters.used

\* C23: when register_app takes the region from a free_regions entry, the
\* new slot is bound to the entry's whole size (its total may exceed the
\* quota asked for), and unregister_app of a live app gives the whole size
\* of its region back to free_regions.
C23_ReusedEntryGrantedWhole ==
    [][/\ (/\ last'.op = "register_app" /\ last'.ret = TRUE
           /\ ~IsLive(last'.id)
           /\ first_fit_region(last'.size) # 0)
          => LET e == free_regions[first_fit_region(last'.size)]
             IN  \E i \in SlotIdx :
                    /\ slots'[i].initialized /\ slots'[i].id = Some(last'.id)
                    /\ slots'[i].offset = e[1]
                    /\ slots'[i].size = e[2]
                    /\ slots'[i].stats.total = e[2]
       /\ (/\ last'.op = "unregister_app" /\ last'.ret = TRUE
           /\ Len(free_regions) < MAX_APPS)
          => free_regions' = Append(free_regions,
                <<slots[SlotOf(last'.id)].offset, slots[SlotOf(last'.id)].size>>)]_vars

\* C24: a slot becomes live only by a register_app that returns true for
\* the id it then holds, and free only by an unregister_app that returns
\* true for the id it held; between the two its id and region stay as they
\* are.  app_alloc and app_dealloc on id change only the heap and the stats
\* of id's own slot: they leave that slot's id, region and initialized
\* flag, every other slot, bump_offset and free_regions unchanged.
C24_SlotLifecycle ==
    [][/\ \A i \in SlotIdx :
             /\ (~slots[i].initialized /\ slots'[i].initialized)
                => /\ last'.op = "register_app" /\ last'.ret = TRUE
                   /\ slots'[i].id = Some(last'.id)
             /\ (slots[i].initialized /\ ~slots'[i].initialized)
                => /\ last'.op = "unregister_app" /\ last'.ret = TRUE
                   /\ slots[i].id = Some(last'.id)
             /\ (slots[i].initialized /\ slots'[i].initialized)
                => slots'[i] = [slots[i] EXCEPT !.heap = slots'[i].heap,
                                                !.stats = slots'[i].stats]
       /\ last'.op \in {"app_alloc", "app_dealloc"}
          => /\ UNCHANGED <<bump_offset, free_regions>>
             /\ \A i \in SlotIdx :
                   /\ slots'[i] = [slots[i] EXCEPT !.heap = slots'[i].heap,
                                                   !.stats = slots'[i].stats]
                   /\ slots[i].id # Some(last'.id) => slots'[i] = slots[i]]_vars

\* the part of C24 about the slot table: the id, region and initialized
\* flag of every slot, bump_offset and free_regions
C24_SlotTableOnly ==
    [][/\ \A i \in SlotIdx :
             /\ (~slots[i].initialized /\ slots'[i].initialized)
                => /\ last'.op = "register_app" /\ last'.ret = TRUE
                   /\ slots'[i].id = Some(last'.id)
             /\ (slots[i].initialized /\ ~slots'[i].initialized)
                => /\ last'.op = "unregister_app" /\ last'.ret = TRUE
                   /\ slots[i].id = Some(last'.id)
             /\ (slots[i].initialized /\ slots'[i].initialized)
                => slots'[i] = [slots[i] EXCEPT !.heap = slots'[i].heap,
                                                !.stats = slots'[i].stats]
       /\ last'.op \in {"app_alloc", "app_dealloc"}
          => /\ UNCHANGED <<bump_offset, free_regions>>
             /\ \A i \in SlotIdx :
                   /\ slots'[i] = [slots[i] EXCEPT !.heap = slots'[i].heap,
                                                   !.stats = slots'[i].stats]
                   /\ slots[i].id # Some(last'.id) => slots'[i].stats = slots[i].stats]_vars

\* register_app(id, q) gets as far as reserving a region and then finds
\* every slot live
ReservesWithoutSlot(id, q) ==
    /\ ~IsLive(id)
    /\ q <= FreeForNewRegions
    /\ alloc_region(q).ok
    /\ Cardinality(LiveSlots) = MAX_APPS

\* C25, as claimed: when register_app reserves a region (by bump or from
\* free_regions) and then finds every slot live, it returns false and the
\* region is not released: bump_offset stays advanced or the free_regions
\* entry stays removed, and free_for_new_regions() is smaller after the
\* call than before.
C25_ReservedRegionLeaks ==
    [][(last'.op = "register_app" /\ ReservesWithoutSlot(last'.id, last'.size))
       => /\ last'.ret = FALSE /\ ~panicked'
          /\ UNCHANGED slots
          /\ bump_offset' = alloc_region(last'.size).bump
          /\ free_regions' = alloc_region(last'.size).free
          /\ FreeForNewRegions' < FreeForNewRegions]_vars

\* C25, amended: in that case free_for_new_regions() is smaller after the
\* call by at least the quota, hence smaller whenever the quota is not 0; a
\* request for 0 bytes with no entry in free_regions and bump_offset on a
\* page boundary reserves nothing and leaves it as it was.
C25_ReservedRegionLeaksItsQuota ==
    [][(last'.op = "register_app" /\ ReservesWithoutSlot(last'.id, last'.size))
       => /\ last'.ret = FALSE /\ ~panicked'
          /\ UNCHANGED slots
          /\ bump_offset' = alloc_region(last'.size).bump
          /\ free_regions' = alloc_region(last'.size).free
          /\ FreeForNewRegions' <= FreeForNewRegions - last'.size
          /\ last'.size > 0 => FreeForNewRegions' < FreeForNewRegions
          /\ FreeForNewRegions' = FreeForNewRegions
             => (last'.size = 0 /\ free_regions = <<>>
                 /\ bump_offset = align_up(bump_offset, USER_ARENA_ALIGN))]_vars

\* register_app has returned false with every slot live and has consumed
\* the only free_regions entry, which no slot holds now
C25_Witness ==
    /\ last.op = "register_app" /\ last.ret = FALSE /\ last.size = 24
    /\ ~IsLive(last.id)
    /\ Cardinality(LiveSlots) = MAX_APPS
    /\ unregistered
    /\ free_regions = <<>>
    /\ \A i \in LiveSlots : slots[i].offset # 0
    /\ FreeForNewRegions = 0

\* C26: unregister_app(id) of a live id returns true and frees the slot
\* even when free_regions already holds MAX_APPS entries; the freed region
\* is then dropped: free_regions is unchanged and free_for_new_regions()
\* does not grow.  free_regions never holds more than MAX_APPS entries.
C26_FullFreeListDropsRegion ==
    [][/\ Len(free_regions') <= MAX_APPS
       /\ (last'.op = "unregister_app" /\ IsLive(last'.id))
          => /\ last'.ret = TRUE /\ ~panicked'
             /\ slots' = [slots EXCEPT ![SlotOf(last'.id)] = new_uninit]
             /\ UNCHANGED bump_offset
             /\ Len(free_regions) = MAX_APPS
                => /\ UNCHANGED free_regions
                   /\ FreeForNewRegions' = FreeForNewRegions]_vars

\* unregister_app has freed the last live slot with free_regions full: the
\* whole arena lies below bump_offset and only the entries are left of it
C26_Witness ==
    /\ last.op = "unregister_app" /\ last.ret = TRUE
    /\ released.dropped
    /\ LiveSlots = {}
    /\ Len(free_regions) = MAX_APPS
    /\ bump_offset = USER_ARENA_SIZE
    /\ FreeForNewRegions < USER_ARENA_ALIGN

\* the last call was an unregister_app that released a slot of a full table
ReleasedFromFullTable ==
    /\ last.op = "unregister_app" /\ last.ret = TRUE
    /\ Cardinality(LiveSlots) = MAX_APPS - 1

\* C27: after unregister_app has released a slot of a full slot table, a
\* following register_app of an id that is not live, with a quota at most
\* the released region's size, returns true.
C27_ReleasedSlotAndRegionReusable ==
    [][(/\ ReleasedFromFullTable
        /\ last'.op = "register_app" /\ ~IsLive(last'.id)
        /\ last'.size <= released.size)
       => (last'.ret = TRUE /\ ~panicked')]_vars

\* the part of C27 that holds: the same for a quota of at least one Hole,
\* the region released having found room in free_regions; the new slot is
\* the one released
C27_ReusableFromOneHole ==
    [][(/\ ReleasedFromFullTable /\ ~released.dropped
        /\ last'.op = "register_app" /\ ~IsLive(last'.id)
        /\ HOLE_MIN_SIZE <= last'.size /\ last'.size <= released.size)
       => /\ last'.ret = TRUE /\ ~panicked'
          /\ \E i \in SlotIdx :
                /\ ~slots[i].initialized
                /\ slots'[i].initialized /\ slots'[i].id = Some(last'.id)
                /\ \E k \in 1..Len(free_regions) :
                      slots'[i].offset = free_regions[k][1]]_vars

\* bump_offset rounded up to a multiple of 4096
RoundedBump == ((bump_offset + 4095) \div 4096) * 4096

\* C28: when no free_regions entry fits, register_app of an id that is not
\* live carves the region at bump_offset rounded up to a multiple of 4096:
\* bump_offset becomes the rounded offset plus the quota, and the slot, if
\* one is bound, starts there.  If the rounded offset plus the quota
\* exceeds the arena size the registration fails and bump_offset is
\* unchanged.  Every region of a live slot and of free_regions starts at a
\* multiple of 4096 and ends at or before the arena size.
C28_BumpCarveIsPageAligned ==
    [][/\ (/\ last'.op = "register_app" /\ ~IsLive(last'.id)
           /\ FittingEntries(last'.size) = {})
          => IF RoundedBump + last'.size > ArenaPages * USER_ARENA_ALIGN
             THEN /\ last'.ret = FALSE /\ ~panicked'
                  /\ UNCHANGED <<bump_offset, free_regions, slots>>
             ELSE /\ bump_offset' = RoundedBump + last'.size
                  /\ UNCHANGED free_regions
                  /\ last'.ret = TRUE
                     => \E i \in SlotIdx :
                           /\ ~slots[i].initialized /\ slots'[i].initialized
                           /\ slots'[i].id = Some(last'.id)
                           /\ slots'[i].offset = RoundedBump
                           /\ slots'[i].start = ARENA_BASE + RoundedBump
                           /\ slots'[i].size = last'.size
       /\ \A i \in SlotIdx :
             slots'[i].initialized
             => /\ slots'[i].offset % 4096 = 0
                /\ slots'[i].offset + slots'[i].size <= ArenaPages * USER_ARENA_ALIGN
       /\ \A k \in 1..Len(free_regions') :
             /\ free_regions'[k][1] % 4096 = 0
             /\ free_regions'[k][1] + free_regions'[k][2] <= ArenaPages * USER_ARENA_ALIGN]_vars

\* register_app has failed, with a slot free and no fewer free bytes than
\* the quota, because the quota does not fit above the rounded bump_offset,
\* next to a live region carved one page above the first
C28_Witness ==
    /\ last.op = "register_app" /\ last.ret = FALSE /\ ~IsLive(last.id)
    /\ find_free_slot # 0
    /\ last.size <= FreeForNewRegions
    /\ FittingEntries(last.size) = {}
    /\ bump_offset % 4096 # 0
    /\ RoundedBump + last.size > ArenaPages * USER_ARENA_ALIGN
    /\ \E i \in LiveSlots : slots[i].offset = 4096

\* the stats of a slot just bound to a region of `size` bytes
FreshStats(size) ==
    [used |-> 0, free |-> size, total |-> size, peak_used |-> 0,
     alloc_count |-> 0, dealloc_count |-> 0]

\* C29: a register_app of an id that is not live, when it returns true,
\* has bound the region to the lowest-index slot that was not initialized
\* and has set that slot's stats to used 0, free = total = region size,
\* peak_used 0, alloc_count 0 and dealloc_count 0, whatever an earlier
\* registration did in that slot or under that id; the other slots are as
\* they were.
C29_BindsLowestFreeSlot ==
    [][(last'.op = "register_app" /\ last'.ret = TRUE /\ ~IsLive(last'.id))
       => \E i \in SlotIdx :
             /\ ~slots[i].initialized
             /\ \A j \in SlotIdx : j < i => slots[j].initialized
             /\ slots'[i].initialized /\ slots'[i].id = Some(last'.id)
             /\ slots'[i].size = last'.size
             /\ slots'[i].stats = FreshStats(slots'[i].size)
             /\ \A j \in SlotIdx : j # i => slots'[j] = slots[j]]_vars

\* an id that was unregistered has been bound again, to the first slot,
\* with fresh stats, while the second slot is live with a block in use
C29_Witness ==
    /\ last.op = "register_app" /\ last.ret = TRUE
    /\ unregistered
    /\ slots[1].initialized /\ slots[1].id = Some(last.id)
    /\ slots[1].stats = FreshStats(last.size)
    /\ slots[2].initialized /\ slots[2].stats.alloc_count > 0

\* the slot's allocator can satisfy a request of `size` bytes
CanAllocate(i, size) ==
    \A align \in AllocAligns : allocate_first_fit(slots[i].heap, size, align).ok

\* C30: app_alloc(id, size, align) on a live id returns null and changes no
\* stats (nor anything else) when the slot's cached free is less than size
\* or when the slot's allocator cannot satisfy the request; otherwise it
\* returns a pointer, raises alloc_count by 1, adds size to used, sets free
\* to the region size minus the new used, and raises peak_used to the new
\* used if that is larger.
C30_AppAllocStats ==
    [][(last'.op = "app_alloc" /\ IsLive(last'.id))
       => LET i == SlotOf(last'.id)
              st == slots[i].stats
          IN  IF st.free < last'.size \/ ~CanAllocate(i, last'.size)
              THEN /\ last'.ret = NULL /\ ~panicked'
                   /\ UNCHANGED <<slots, bump_offset, free_regions, handed>>
              ELSE /\ last'.ret # NULL
                   /\ slots'[i].stats.alloc_count = st.alloc_count + 1
                   /\ slots'[i].stats.used = st.used + last'.size
                   /\ slots'[i].stats.free = slots[i].size - slots'[i].stats.used
                   /\ slots'[i].stats.peak_used =
                         IF slots'[i].stats.used > st.peak_used
                         THEN slots'[i].stats.used ELSE st.peak_used
                   /\ slots'[i].stats.dealloc_count = st.dealloc_count
                   /\ slots'[i].stats.total = st.total]_vars

\* app_alloc has returned null for a request that the cached free covers
\* and the allocator cannot satisfy, while the other app holds a block that
\* raised its peak_used
C30_Witness ==
    /\ last.op = "app_alloc" /\ last.ret = NULL /\ IsLive(last.id)
    /\ slots[SlotOf(last.id)].stats.free >= last.size
    /\ slots[SlotOf(last.id)].stats.alloc_count = 0
    /\ \E j \in LiveSlots :
          /\ j # SlotOf(last.id)
          /\ slots[j].stats.alloc_count = 1
          /\ slots[j].stats.used = 8 /\ slots[j].stats.peak_used = 8
          /\ slots[j].stats.free = slots[j].size - 8

\* what app_stats(id) returns in the current state: None for an id that is
\* not live, else the slot's stats with free, total and used read off its
\* heap (memory.rs:336-341)
AppStatsNow(id) ==
    IF ~IsLive(id) THEN None
    ELSE LET slot == slots[SlotOf(id)]
             free_now == slot.heap.size - slot.heap.used
         IN  Some([used |-> IF slot.size >= free_now THEN slot.size - free_now ELSE 0,
                   free |-> free_now,
                   total |-> slot.size,
                   peak_used |-> slot.stats.peak_used,
                   alloc_count |-> slot.stats.alloc_count,
                   dealloc_count |-> slot.stats.dealloc_count])

\* C31: memory_overview reports apps[i] = Some((id, stats)) exactly for the
\* slot indices i that are initialized, with the slot's id and the stats
\* that app_stats(id) returns in that state, None at every other index, and
\* user_arena_free_for_new_regions equal to (arena size - bump_offset) plus
\* the sum of the free_regions sizes; an app_stats call that follows the
\* overview returns what the overview listed for its id.
C31_OverviewListsLiveSlots ==
    [][/\ last'.op = "memory_overview"
          => /\ \A i \in SlotIdx :
                   last'.ret.apps[i] =
                      IF slots[i].initialized
                      THEN Some(<<slots[i].id[1], AppStatsNow(slots[i].id[1])[1]>>)
                      ELSE None
             /\ last'.ret.user_arena_free_for_new_regions =
                   (USER_ARENA_SIZE - bump_offset)
                   + SumOver([k \in 1..Len(free_regions) |-> free_regions[k][2]],
                             1..Len(free_regions))
       /\ (last.op = "memory_overview" /\ last'.op = "app_stats")
          => LET L == {i \in SlotIdx : /\ last.ret.apps[i] # None
                                       /\ last.ret.apps[i][1][1] = last'.id}
             IN  IF L = {} THEN last'.ret = None
                 ELSE \A i \in L : last'.ret = Some(last.ret.apps[i][1][2])]_vars

\* memory_overview has listed nothing at index 1 and, at index 2, an app
\* whose heap holds a block of 16 bytes counted as 8, with a released region
\* in free_regions
C31_Witness ==
    /\ last.op = "memory_overview"
    /\ last.ret.apps[1] = None
    /\ last.ret.apps[2] # None
    /\ last.ret.apps[2][1][2].used = 16
    /\ last.ret.apps[2][1][2].peak_used = 8
    /\ free_regions # <<>>
    /\ last.ret.user_arena_free_for_new_regions > USER_ARENA_SIZE - bump_offset

\* C32: bump_offset never decreases under any operation (register_app,
\* unregister_app, app_alloc, app_dealloc, app_stats, memory_overview) and
\* never exceeds the arena size.
C32_BumpOffsetMonotonic ==
    /\ [](bump_offset <= USER_ARENA_SIZE)
    /\ [][bump_offset' >= bump_offset]_vars

\* every app has been unregistered and bump_offset stays at the end of the
\* arena
C32_Witness ==
    /\ bump_offset = USER_ARENA_SIZE
    /\ last.op = "unregister_app" /\ last.ret = TRUE
    /\ LiveSlots = {}

\* the SystemStats of the last call: what system_stats returned, or the
\* system field of what memory_overview returned
SystemReported ==
    IF last.op = "system_stats" THEN Some(last.ret)
    ELSE IF last.op = "memory_overview" THEN Some(last.ret.system)
    ELSE None

\* C33: system_stats reports reserved equal to the fixed kernel-heap size
\* (the arena is not included) and free equal to total - reserved, for
\* every boot-reported total.
C33_SystemStatsDerived ==
    SystemReported # None
    => /\ SystemReported[1].total = TOTAL_RAM
       /\ SystemReported[1].reserved = HEAP_SIZE
       /\ SystemReported[1].free = SystemReported[1].total - SystemReported[1].reserved

\* C33, amended: system_stats reports total equal to the boot-reported
\* total, reserved equal to the fixed kernel-heap size (the arena is not
\* included), and free equal to total - reserved when the total is at least
\* the kernel-heap size and to 0 when it is less.
C33_SystemStatsSaturates ==
    SystemReported # None
    => /\ SystemReported[1].total = TOTAL_RAM
       /\ SystemReported[1].reserved = HEAP_SIZE
       /\ SystemReported[1].free =
             IF TOTAL_RAM >= HEAP_SIZE THEN TOTAL_RAM - HEAP_SIZE ELSE 0

\* system_stats has reported a total one byte short of the kernel heap,
\* with an app registered in the arena
C33_Witness ==
    /\ last.op = "system_stats"
    /\ last.ret.total = HEAP_SIZE - 1 /\ last.ret.free = 0
    /\ LiveSlots # {}

\* the bytes of the regions of the live slots
LiveSum == SumOver([i \in SlotIdx |-> slots[i].size], LiveSlots)

\* the bytes granted to live apps plus the bytes free_for_new_regions()
\* counts
Committed == LiveSum + FreeForNewRegions

\* C34: in every reachable state the sum of the sizes of all live slots'
\* regions plus free_for_new_regions() is at most the arena size, so the
\* arena never over-commits and free_for_new_regions() never exceeds the
\* arena size.
C34_ArenaNeverOverCommitted ==
    /\ Committed <= USER_ARENA_SIZE
    /\ FreeForNewRegions <= USER_ARENA_SIZE

\* both slots are live, free_regions holds a released region, and bytes of
\* the arena are neither granted nor free
C34_Witness ==
    /\ LiveSlots = SlotIdx
    /\ free_regions # <<>>
    /\ LiveSum > 0
    /\ Committed < USER_ARENA_SIZE

\* C35: the quantity (sum of live slots' region sizes +
\* free_for_new_regions()) never increases under any operation: bytes lost
\* to 4096-alignment gaps, to a reused free region larger than the quota,
\* to a dropped freed region or to a failed registration are never
\* recovered.
C35_CommittedNeverIncreases ==
    [][Committed' <= Committed]_vars

\* unregister_app has just dropped a region that free_regions had no room
\* for, and every app is unregistered with less than the arena free
C35_Witness ==
    /\ last.op = "unregister_app" /\ last.ret = TRUE
    /\ released.dropped
    /\ LiveSlots = {}
    /\ Committed < USER_ARENA_SIZE

\* the stats values that the last call returned, when it was app_stats,
\* heap_stats or memory_overview
ReturnedStats ==
    CASE last.op = "app_stats" /\ last.ret # None -> {last.ret[1]}
      [] last.op = "heap_stats" -> {last.ret}
      [] last.op = "memory_overview" ->
            {last.ret.kernel_heap}
            \cup {last.ret.apps[i][1][2] : i \in {j \in SlotIdx : last.ret.apps[j] # None}}
      [] OTHER -> {}

\* C36: in every stats value returned by app_stats, heap_stats or
\* memory_overview, peak_used is at least used.
C36_PeakAtLeastUsed ==
    \A st \in ReturnedStats : st.peak_used >= st.used

\* C37: for every live app, after any sequence of app_alloc and app_dealloc
\* calls (calls with in-range pointers that were never allocated or were
\* already freed included), the free byte count of the app's heap never
\* exceeds the region size and dealloc_count never exceeds alloc_count.
C37_FreeAndCountsBounded ==
    \A i \in LiveSlots :
       /\ HeapFree(slots[i].heap) <= slots[i].size
       /\ slots[i].stats.dealloc_count <= slots[i].stats.alloc_count

\* the part of C37 about the free byte count
C37_FreeWithinRegion ==
    \A i \in LiveSlots : HeapFree(slots[i].heap) <= slots[i].size

\* the part of C37 about the counts
C37_DeallocsWithinAllocs ==
    \A i \in LiveSlots : slots[i].stats.dealloc_count <= slots[i].stats.alloc_count

\* C38: every block accepted by app_dealloc(id, ptr, size, align) lies
\* entirely inside id's region: an accepted call has ptr + size at most
\* region_start + region_size, so that no hole of id's heap reaches into
\* the bytes that follow the region.
C38_AcceptedBlockInsideRegion ==
    /\ (last.op = "app_dealloc" /\ last.ret = TRUE)
       => LET i == SlotOf(last.id)
          IN  last.ptr + last.size <= slots[i].start + slots[i].size
    /\ \A i \in LiveSlots : \A k \in 1..Len(slots[i].heap.holes) :
          slots[i].heap.holes[k][1] + slots[i].heap.holes[k][2]
             <= slots[i].start + slots[i].size

====
